---- MODULE Spec2Model ----
(***************************************************************************)
(* Model of the phievse firmware's charging controller                     *)
(* (firmware/src/lib.rs, PhiEvseController::run) together with the         *)
(* Control-Pilot reader and encoder (firmware/src/control_pilot.rs) and    *)
(* the relay pin (firmware/src/gpio.rs).                                   *)
(*                                                                         *)
(* One Tick action is one iteration of the 10 Hz loop of run().  What the  *)
(* iteration reads from other threads and from hardware (the command       *)
(* queue's try_recv result, the CP peak cell, the negative-rail pin, the   *)
(* three phase-current cells) is drawn from small sets and kept in         *)
(* variables, so that every state is the state at the end of a tick        *)
(* together with what that tick read.  The loop counter i of run() only    *)
(* selects which ticks write a log line and is left out.                   *)
(*                                                                         *)
(* The pure functions (current_to_duty, calculate_power, the SetMaxPower   *)
(* arm), the relay pin with its helper threads, the command queue and the  *)
(* current meter (firmware/src/current_meter.rs) have a specification of   *)
(* their own each (FnSpec, RelaySpec, QueueSpec, MeterSpec) over variables *)
(* of their own; every specification starts from the same Init, the state  *)
(* after construction, and leaves the variables of the others alone.       *)
(* So have the log ring buffer (firmware/src/logger.rs, RingSpec) and the  *)
(* LED controller with its thread (firmware/src/led.rs, LedSpec).          *)
(* OverSpec is the controller under SetMaxPower commands with a count of   *)
(* the over-current ticks, FairSpec is Spec with the fairness of the loop. *)
(***************************************************************************)
EXTENDS Integers, Sequences, FiniteSets, TLC

VARIABLES
    state,                   \* self.state
    max_power,               \* self.max_power
    max_current,             \* self.max_current
    three_phase,             \* self.three_phase
    current_adjustment,      \* self.current_adjustment
    status,                  \* self.status: [power, state, max_power]
    next_current_adjustment, \* run(): let mut next_current_adjustment
    prev_state,              \* run(): let mut prev_state
    stop_timeout,            \* run(): let mut stop_timeout
    relay_main,              \* peripherals.relay_main: [state, duty]
    relay_3_phase,           \* peripherals.relay_3_phase: [state, duty]
    control_pilot,           \* the signal last passed to set_control_pilot
    watchdog,                \* "armed" after init, "stopped" after stop()
    panicked,                \* run() ended in unreachable!()
    msg,                     \* what try_recv returned in the last tick
    cp_mv,                   \* ControlPilotReader.cp_mv as read in the last tick
    pilot_negative,          \* pilot_negative.is_high() as read in the last tick
    current,                 \* the three phase-current cells in the last tick
    start_state,             \* self.state when the last tick began
    body_state,              \* self.state when the last tick reached `match self.state`
    log,                     \* peripheral calls of the last tick, in order
    err_due,                 \* the relays the last tick, having set the state to Error, left ON
    commands,                \* commands consumed so far
    changes,                 \* changes of cp_mv, pilot_negative or current so far
    fn,                      \* FnSpec: the function applied last ("none" at first)
    arg,                     \* FnSpec: its argument
    ret,                     \* FnSpec: what it returned
    rp_state,                \* RelaySpec: RelayPin.state (the AtomicBool)
    rp_duty,                 \* RelaySpec: the duty of RelayPin.pin
    rp_call,                 \* RelaySpec: the controller's position in set_level
    rp_helpers,              \* RelaySpec: the helper threads, counted by position
    rp_old,                  \* RelaySpec: those of them spawned before the most recent OFF -> ON
    queue,                   \* QueueSpec: the channel behind control_tx / control_rx
    sent,                    \* QueueSpec: every command sent, in the order of the sends
    consumed,                \* QueueSpec: every command try_recv returned, in order
    cm,                      \* MeterSpec: the fields of one CurrentMeter
    cm_stats,                \* MeterSpec: the cell the meter publishes to
    cm_fed,                  \* MeterSpec: the value fed and how many samples of it, counted up to 5000
    cm_last,                 \* WaveSpec: the batch of the last receive, the meter's state and the cell before it
    over_ticks,              \* OverSpec: consecutive ticks of over-current in Charging that did not end in Error
    rb,                      \* RingSpec: the fields of one StringRingBuffer
    rb_panicked,             \* RingSpec: append panicked
    rb_last,                 \* RingSpec: the message passed to the last append
    rb_accepted,             \* RingSpec: the messages append did not reject, in order
    rb_appends,              \* RingSpec: calls of append so far
    led_pattern,             \* LedSpec: LedController.pattern, behind its mutex
    led_chan,                \* LedSpec: the channel behind tx / rx
    led_pc,                  \* LedSpec: where the thread is in run(): "show", "recv", "done"
    led_i,                   \* LedSpec: run(): let mut i
    led_wait,                \* LedSpec: run(): let wait
    led_calls,               \* LedSpec: the colours passed to driver.set_rgb, in order
    led_set,                 \* LedSpec: the colours passed to set_color, in order
    led_quiet,               \* LedSpec: every set_color so far found the thread waiting, nothing pending
    led_dropped              \* LedSpec: the LedController was dropped

vars == << state, max_power, max_current, three_phase, current_adjustment,
           status, next_current_adjustment, prev_state, stop_timeout,
           relay_main, relay_3_phase, control_pilot, watchdog, panicked,
           msg, cp_mv, pilot_negative, current, start_state, body_state, log,
           err_due,
           commands, changes,
           fn, arg, ret, rp_state, rp_duty, rp_call, rp_helpers, rp_old,
           queue, sent, consumed, cm, cm_stats, cm_fed,
           cm_last,
           over_ticks, rb, rb_panicked, rb_last, rb_accepted, rb_appends,
           led_pattern, led_chan, led_pc, led_i, led_wait, led_calls,
           led_set, led_quiet, led_dropped >>

fnVars == << fn, arg, ret >>
relayVars == << rp_state, rp_duty, rp_call, rp_helpers, rp_old >>
queueVars == << queue, sent, consumed >>
meterVars == << cm, cm_stats, cm_fed >>
overVars == << over_ticks >>
ringVars == << rb, rb_panicked, rb_last, rb_accepted, rb_appends >>
ledVars == << led_pattern, led_chan, led_pc, led_i, led_wait, led_calls,
             led_set, led_quiet, led_dropped >>
waveVars == << cm_last >>
extraVars == << overVars, ringVars, ledVars, waveVars >>
notRelayVars ==
    << state, max_power, max_current, three_phase, current_adjustment,
       status, next_current_adjustment, prev_state, stop_timeout,
       relay_main, relay_3_phase, control_pilot, watchdog, panicked,
       msg, cp_mv, pilot_negative, current, start_state, body_state, log,
       err_due, commands, changes, fn, arg, ret, queue, sent, consumed,
       cm, cm_stats, cm_fed, cm_last, over_ticks,
       rb, rb_panicked, rb_last, rb_accepted, rb_appends,
       led_pattern, led_chan, led_pc, led_i, led_wait, led_calls,
       led_set, led_quiet, led_dropped >>
controllerVars ==
    << state, max_power, max_current, three_phase, current_adjustment,
       status, next_current_adjustment, prev_state, stop_timeout,
       relay_main, relay_3_phase, control_pilot, watchdog, panicked,
       msg, cp_mv, pilot_negative, current, start_state, body_state, log,
       err_due, commands, changes >>

----------------------------------------------------------------------------
(* Program constants *)

GridVolts == 230
MinPowerWatts == 1500
MaxPowerWatts == 11000
SinglePhaseMinMamps == 6500
ThreePhaseMinMamps == 20000
ThreePhaseMaxMamps == 47999
SinglePhaseCapMamps == 16000
MinChargeCurrent == 6000
MaxChargeMamps == 32000
StopTimeoutTicks == 50
PowerChangeSettleTicks == 50
RelayChangeSettleTicks == 100
AdjustSettleTicks == 30
NotChargingMamps == 1000
OverCurrentMargin == 4000
LowCurrentMamps == 6500
LowCurrentStep == 500
DiffThreshold == 500
DiffStep == 300
AdjustmentLimit == 1000
ConnectedAdjustment == 1000
StandbyDuty == 16383
CpNotConnectedMaxMv == 50
CpConnectedMaxMv == 650
RelayHoldingDuty == 85
RelayMaxDuty == 16383

----------------------------------------------------------------------------
(* Input sets of the model.  Between two ticks at most one of the CP peak, *)
(* the negative-rail pin and the phase-current cells changes; MaxChanges   *)
(* and MaxCommands cap how often the inputs change and how many commands   *)
(* are sent in one run.                                                    *)

MaxCommands == 2
MaxChanges == 2

NoMsg == [type |-> "None", watts |-> 0]
WattsValues == {1499, 1500, 11001}
Messages == [type : {"SetMaxPower"}, watts : WattsValues]
              \cup {[type |-> "Shutdown", watts |-> 0]}
CpMvValues == {50, 650, 651}
CurrentReadings == { <<0, 0, 0>>, <<900, 0, 0>>, <<5800, 0, 0>>, <<6600, 0, 0>>,
                     <<10000, 0, 0>>, <<21000, 0, 0>>, <<21000, 21000, 21000>> }

----------------------------------------------------------------------------
(* Helpers for Rust integer operations *)

Abs(x) == IF x < 0 THEN -x ELSE x
Signum(x) == IF x > 0 THEN 1 ELSE IF x < 0 THEN -1 ELSE 0
Min(a, b) == IF a < b THEN a ELSE b
\* `x as u32` of an i32 x.  The u32 is kept by its i32 bit pattern: a negative
\* x stands for the u32 x + 2^32, which is 2^31 or more.
AsU32(x) == x
\* lo <= u <= hi for a u32 u kept by its bit pattern, 0 <= lo <= hi < 2^31
U32InRange(u, lo, hi) == u >= 0 /\ lo <= u /\ u <= hi

----------------------------------------------------------------------------
(* control_pilot.rs *)

\* (mutant) the first arm's line is used up to 13499
current_to_dutyNoCurve(ma) ==
    IF ma <= 5999 THEN 0
    ELSE IF ma <= 13499 THEN (17 * ma) \div 1000 + 110
    ELSE IF ma <= MaxChargeMamps THEN (235 * ma) \div 1000 - 2713
    ELSE 0

current_to_duty(ma) ==
    IF ma <= 5999 THEN 0
    ELSE IF ma <= 10999 THEN (17 * ma) \div 1000 + 110
    ELSE IF ma <= 13499
        THEN 5051 + ((((ma * ma) \div 100) * 368) \div 100000) - ((837 * ma) \div 1000)
    ELSE IF ma <= MaxChargeMamps THEN (235 * ma) \div 1000 - 2713
    ELSE 0

\* x is a value of u32
FitsU32(x) == x >= 0 /\ x \div 65536 < 65536

\* Some step of the arm's u32 expression leaves u32 (a panic in a debug
\* build, a wrapped value in a release build)
current_to_duty_wraps(ma) ==
    IF ma <= 5999 THEN FALSE
    ELSE IF ma <= 10999
        THEN ~(FitsU32(17 * ma) /\ FitsU32((17 * ma) \div 1000 + 110))
    ELSE IF ma <= 13499
        THEN LET sq == ma * ma
                 q == (sq \div 100) * 368
                 s == 5051 + q \div 100000
                 l == 837 * ma
             IN  ~(FitsU32(sq) /\ FitsU32(q) /\ FitsU32(s) /\ FitsU32(l)
                   /\ FitsU32(s - l \div 1000))
    ELSE IF ma <= MaxChargeMamps
        THEN ~(FitsU32(235 * ma) /\ FitsU32((235 * ma) \div 1000 - 2713))
    ELSE FALSE

Standby == [kind |-> "Standby", mamps |-> 0]
SignalError == [kind |-> "Error", mamps |-> 0]
Charge(mamps) == [kind |-> "Charge", mamps |-> mamps]

\* The duty set_control_pilot writes to the pin for a signal
SignalDuty(signal) ==
    CASE signal.kind = "Standby" -> StandbyDuty
      [] signal.kind = "Charge"
             /\ U32InRange(signal.mamps, MinChargeCurrent, MaxChargeMamps)
            -> current_to_duty(signal.mamps)
      [] OTHER -> 0

\* ControlPilotReader::state
CpState(mv) ==
    IF mv <= CpNotConnectedMaxMv THEN "NotConnected"
    ELSE IF mv <= CpConnectedMaxMv THEN "Connected"
    ELSE "Ready"

----------------------------------------------------------------------------
(* lib.rs: calculate_power *)

\* (mutant) 20000 mA is still single-phase
calculate_powerLateSplit(watts) ==
    LET total_mamps == (watts * 1000) \div GridVolts
    IN  IF total_mamps < SinglePhaseMinMamps
            THEN [max_current |-> 0, three_phase |-> FALSE, panic |-> FALSE]
        ELSE IF total_mamps <= ThreePhaseMinMamps
            THEN [max_current |-> Min(total_mamps, SinglePhaseCapMamps),
                  three_phase |-> FALSE, panic |-> FALSE]
        ELSE IF total_mamps <= ThreePhaseMaxMamps
            THEN [max_current |-> total_mamps \div 3, three_phase |-> TRUE,
                  panic |-> FALSE]
        ELSE [max_current |-> 0, three_phase |-> FALSE, panic |-> TRUE]

calculate_power(watts) ==
    LET total_mamps == (watts * 1000) \div GridVolts
    IN  IF total_mamps < SinglePhaseMinMamps
            THEN [max_current |-> 0, three_phase |-> FALSE, panic |-> FALSE]
        ELSE IF total_mamps < ThreePhaseMinMamps
            THEN [max_current |-> Min(total_mamps, SinglePhaseCapMamps),
                  three_phase |-> FALSE, panic |-> FALSE]
        ELSE IF total_mamps <= ThreePhaseMaxMamps
            THEN [max_current |-> total_mamps \div 3, three_phase |-> TRUE,
                  panic |-> FALSE]
        ELSE [max_current |-> 0, three_phase |-> FALSE, panic |-> TRUE]

\* (mutant) the upper clamp is 12000
ClampWattsLateCap(watts) ==
    IF watts < MinPowerWatts THEN 0
    ELSE IF watts <= 12000 THEN watts
    ELSE 12000

\* The clamp of SetMaxPower(watts)
ClampWatts(watts) ==
    IF watts < MinPowerWatts THEN 0
    ELSE IF watts <= MaxPowerWatts THEN watts
    ELSE MaxPowerWatts

----------------------------------------------------------------------------
(* gpio.rs: RelayPin.  state is the AtomicBool (the commanded level), duty *)
(* the PWM duty of the pin.  set_level on OFF -> ON spawns a helper thread *)
(* that sleeps RELAY_SWITCH_DURATION (90 ms), loads state and, if it is    *)
(* set, writes the holding duty.  A tick of the controller takes at least  *)
(* 100 ms, so the helper (helper = "new" in the tick that spawned it) is   *)
(* taken to run during the following tick ("due") and to have ended when   *)
(* that tick ends.  Its load and its write are two steps: when the         *)
(* controller switches the relay off in the tick where the helper is due,  *)
(* the helper may have loaded state before the swap and write the holding  *)
(* duty after the controller wrote 0 (late).                               *)

RelayOff == [state |-> FALSE, duty |-> 0, helper |-> "none"]

\* p.get_max_duty() / 100 * RELAY_HOLDING_DUTY
HoldingDuty == (RelayMaxDuty \div 100) * RelayHoldingDuty

\* RelayPin::set_level
RelaySetLevel(relay, level, late) ==
    IF ~level
        THEN IF relay.helper = "due" /\ relay.state /\ late
                THEN [state |-> FALSE, duty |-> HoldingDuty, helper |-> "none"]
                ELSE [relay EXCEPT !.state = FALSE, !.duty = 0]
    ELSE IF ~relay.state
        THEN [state |-> TRUE, duty |-> RelayMaxDuty, helper |-> "new"]
    ELSE relay

\* RelayPin::level
RelayLevel(relay) == relay.duty > 0

\* The helper thread's closure, run after the sleep
RelayHelper(relay) ==
    IF relay.state THEN [relay EXCEPT !.duty = HoldingDuty] ELSE relay

\* A tick begins: the helper spawned in the tick before has slept
RelayTickStart(relay) ==
    IF relay.helper = "new" THEN [relay EXCEPT !.helper = "due"] ELSE relay

\* A tick ends: a helper that was due has run
RelayTickEnd(relay) ==
    IF relay.helper = "due" THEN [RelayHelper(relay) EXCEPT !.helper = "none"]
    ELSE relay

----------------------------------------------------------------------------
(* lib.rs: PhiEvseController::run, one loop iteration.  The iteration is   *)
(* computed on a record c of the controller's fields and the loop's        *)
(* locals, passed through the phases of the loop body in source order.     *)

\* set_control_pilot(signal), recorded in the tick's log
SetControlPilot(c, signal) ==
    [c EXCEPT !.control_pilot = signal,
              !.log = Append(@, "cp_" \o signal.kind)]

\* (self.max_current as i32 + self.current_adjustment) as u32
ChargeSignal(c) == Charge(AsU32(c.max_current + c.current_adjustment))

\* (mutant) the watchdog is reset only while the state is not Shutdown
TickStartUnlessShutdown(c) ==
    [c EXCEPT !.log = IF c.state = "Shutdown" THEN << >> ELSE <<"watchdog_reset">>,
              !.relay_main = RelayTickStart(@),
              !.relay_3_phase = RelayTickStart(@)]

\* loop head: watchdog.reset()
TickStart(c) ==
    [c EXCEPT !.log = <<"watchdog_reset">>,
              !.relay_main = RelayTickStart(@),
              !.relay_3_phase = RelayTickStart(@)]

\* sleep(Duration::from_millis(100)) at the end of the loop body
TickEnd(c) ==
    [c EXCEPT !.relay_main = RelayTickEnd(@),
              !.relay_3_phase = RelayTickEnd(@)]

\* ControlMessage::SetMaxPower(watts)
ReceiveSetMaxPower(c, watts) ==
    LET p == ClampWatts(watts)
        r == calculate_power(p)
    IN  IF r.panic
            THEN [c EXCEPT !.max_power = p,
                           !.status = [@ EXCEPT !.max_power = p],
                           !.panicked = TRUE]
            ELSE [c EXCEPT !.max_power = p,
                           !.status = [@ EXCEPT !.max_power = p],
                           !.max_current = r.max_current,
                           !.three_phase = r.three_phase,
                           !.changing_power = TRUE]

\* (mutant) Shutdown does not wait for a charging session to stop
ReceiveShutdownDirect(c) == [c EXCEPT !.state = "Shutdown"]

\* ControlMessage::Shutdown
ReceiveShutdown(c) ==
    IF c.state = "Charging"
        THEN [c EXCEPT !.state = "ShuttingDown", !.stop_timeout = StopTimeoutTicks]
        ELSE [c EXCEPT !.state = "Shutdown"]

\* if let Ok(msg) = self.control_rx.try_recv()
ReceiveCommand(c, m) ==
    CASE m.type = "SetMaxPower" -> ReceiveSetMaxPower(c, m.watts)
      [] m.type = "Shutdown" -> ReceiveShutdown(c)
      [] OTHER -> c

\* Check safety indicators first
SafetyCheck(c, is_high) ==
    IF ~is_high THEN [c EXCEPT !.state = "Error", !.set_error = TRUE] ELSE c

\* (mutant) a connected vehicle is never taken for disconnected again
BodyNotConnectedSticky(c, cp_state) ==
    IF c.state = "Connected" /\ cp_state = "NotConnected" THEN c
    ELSE [c EXCEPT !.state = cp_state]

\* PhiEvseState::NotConnected | PhiEvseState::Connected
BodyNotConnected(c, cp_state) ==
    LET c1 == [c EXCEPT !.state = cp_state]
    IN  IF c1.changing_power /\ c1.state = "Connected"
            THEN IF c1.max_current > MinChargeCurrent
                    THEN SetControlPilot(c1, ChargeSignal(c1))
                    ELSE SetControlPilot(c1, Standby)
            ELSE c1

\* (mutant) the relays are switched without the check of max_current
BodyReadyNoCurrentCheck(c) ==
    [c EXCEPT !.relay_3_phase = RelaySetLevel(@, c.three_phase, c.late_3_phase),
              !.relay_main = RelaySetLevel(@, TRUE, c.late_main),
              !.state = "Charging",
              !.log = @ \o << "sleep_500", "relay_3_phase_off_wait", "relay_main_on" >>]

\* PhiEvseState::Ready
BodyReady(c) ==
    IF c.max_current > MinChargeCurrent
        THEN [c EXCEPT !.relay_3_phase = RelaySetLevel(@, c.three_phase, c.late_3_phase),
                       !.relay_main = RelaySetLevel(@, TRUE, c.late_main),
                       !.state = "Charging",
                       !.log = @ \o << "sleep_500",
                                      IF c.three_phase THEN "relay_3_phase_on_wait"
                                                       ELSE "relay_3_phase_off_wait",
                                      "relay_main_on" >>]
        ELSE c

\* PhiEvseState::Charging: if changing_power { ... }
ChargingPowerChange(c) ==
    IF c.changing_power
        THEN LET c1 == [SetControlPilot(c, ChargeSignal(c))
                            EXCEPT !.next_current_adjustment = PowerChangeSettleTicks]
             IN  IF c1.three_phase # RelayLevel(c1.relay_3_phase)
                    THEN [c1 EXCEPT !.relay_3_phase = RelaySetLevel(@, c1.three_phase, c1.late_3_phase),
                                    !.next_current_adjustment = RelayChangeSettleTicks,
                                    !.log = Append(@, IF c1.three_phase
                                                        THEN "relay_3_phase_on"
                                                        ELSE "relay_3_phase_off")]
                    ELSE c1
        ELSE c

\* (mutant) no clamp
ClampAdjustmentNone(adj) == adj

\* if self.current_adjustment.abs() > 1000 { ... signum() * 1000 }
ClampAdjustment(adj) ==
    IF Abs(adj) > AdjustmentLimit THEN Signum(adj) * AdjustmentLimit ELSE adj

\* (mutant) the adjustment is made but the signal is not re-advertised
AdjustSilent(c, step) ==
    [c EXCEPT !.current_adjustment = ClampAdjustment(@ + step),
              !.next_current_adjustment = AdjustSettleTicks]

\* self.current_adjustment += step; clamp; re-advertise; next_current_adjustment = 30
Adjust(c, step) ==
    LET c1 == [c EXCEPT !.current_adjustment = ClampAdjustment(@ + step)]
    IN  [SetControlPilot(c1, ChargeSignal(c1))
            EXCEPT !.next_current_adjustment = AdjustSettleTicks]

\* total_mamps: the sum of the three cells
TotalMamps(cur) == cur[1] + cur[2] + cur[3]

\* phases = if self.three_phase { 3 } else { 1 }; total_mamps / phases
MampsPerPhase(cur, three) == TotalMamps(cur) \div (IF three THEN 3 ELSE 1)

\* (mutant) the emergency threshold is ten times the margin
OverCurrentWideMargin(c, mamps_per_phase) ==
    mamps_per_phase > c.max_current + 10 * OverCurrentMargin

\* mamps_per_phase > self.max_current + 4000
OverCurrent(c, mamps_per_phase) ==
    mamps_per_phase > c.max_current + OverCurrentMargin

\* PhiEvseState::Charging: the control logic under next_current_adjustment == 0
ChargingControl(c, cp_state, cur) ==
    IF cp_state # "Ready"
        THEN [c EXCEPT !.state = "Stopping", !.stop_timeout = StopTimeoutTicks]
        ELSE LET mamps_per_phase == MampsPerPhase(cur, c.three_phase)
                 current_diff == c.max_current - mamps_per_phase
             IN  IF mamps_per_phase < NotChargingMamps
                    THEN [c EXCEPT !.next_current_adjustment = @ + 1]
                 ELSE IF OverCurrent(c, mamps_per_phase)
                    THEN [c EXCEPT !.state = "Error", !.set_error = TRUE]
                 ELSE IF mamps_per_phase < LowCurrentMamps
                    THEN Adjust(c, LowCurrentStep)
                 ELSE IF Abs(current_diff) > DiffThreshold
                    THEN Adjust(c, Signum(current_diff) * DiffStep)
                 ELSE c

\* (mutant) the power is published in milliwatts
PublishPowerNoDivision(c, total_mamps) ==
    [c EXCEPT !.status = [@ EXCEPT !.power = total_mamps * GridVolts]]

\* self.status.lock().unwrap().power = total_mamps * 230 / 1000
PublishPower(c, total_mamps) ==
    [c EXCEPT !.status = [@ EXCEPT !.power = (total_mamps * GridVolts) \div 1000]]

\* (mutant) the control logic runs in every tick
BodyChargingEveryTick(c, cp_state, cur) ==
    ChargingControl(PublishPower(ChargingPowerChange(c), TotalMamps(cur)),
                    cp_state, cur)

\* PhiEvseState::Charging
BodyCharging(c, cp_state, cur) ==
    LET c1 == PublishPower(ChargingPowerChange(c), TotalMamps(cur))
    IN  IF c1.next_current_adjustment = 0
            THEN ChargingControl(c1, cp_state, cur)
            ELSE [c1 EXCEPT !.next_current_adjustment = @ - 1]

\* (mutant) the phase selector is opened first, with the settle wait
OpenRelaysPhaseFirst(c) ==
    [c EXCEPT !.relay_3_phase = RelaySetLevel(@, FALSE, c.late_3_phase),
              !.relay_main = RelaySetLevel(@, FALSE, c.late_main),
              !.log = @ \o << "relay_3_phase_off_wait", "relay_main_off" >>]

\* the relays are opened: main with its settle wait, then the phase selector
OpenRelays(c) ==
    [c EXCEPT !.relay_main = RelaySetLevel(@, FALSE, c.late_main),
              !.relay_3_phase = RelaySetLevel(@, FALSE, c.late_3_phase),
              !.log = @ \o << "relay_main_off_wait", "relay_3_phase_off" >>]

\* PhiEvseState::Stopping | PhiEvseState::ShuttingDown
BodyStopping(c, cp_state, cur) ==
    IF TotalMamps(cur) = 0 \/ c.stop_timeout <= 0
        THEN LET c1 == OpenRelays(c)
             IN  IF c1.state = "Stopping"
                    THEN IF cp_state = "Ready"
                            THEN [c1 EXCEPT !.panicked = TRUE]
                            ELSE [c1 EXCEPT !.state = cp_state]
                    ELSE [c1 EXCEPT !.state = "Shutdown"]
        ELSE [c EXCEPT !.stop_timeout = @ - 1]

\* (mutant) the error is cleared by any CP mode but Ready
BodyErrorAnyMode(c, cp_state) ==
    IF cp_state # "Ready" THEN [c EXCEPT !.state = cp_state] ELSE c

\* PhiEvseState::Error
BodyError(c, cp_state) ==
    IF cp_state = "NotConnected" THEN [c EXCEPT !.state = "NotConnected"] ELSE c

\* match self.state { ... }; changing_power = false
Body(c, cp_state, cur) ==
    LET c1 == CASE c.state \in {"NotConnected", "Connected"} -> BodyNotConnected(c, cp_state)
                [] c.state = "Ready" -> BodyReady(c)
                [] c.state = "Charging" -> BodyCharging(c, cp_state, cur)
                [] c.state \in {"Stopping", "ShuttingDown"} -> BodyStopping(c, cp_state, cur)
                [] c.state = "Error" -> BodyError(c, cp_state)
                [] OTHER -> c
    IN  IF c1.panicked THEN c1 ELSE [c1 EXCEPT !.changing_power = FALSE]

\* Actions when entering a new state: match self.state { ... }
EntryAction(c) ==
    CASE c.state = "NotConnected" -> SetControlPilot(c, Standby)
      [] c.state = "Connected" ->
            LET c1 == [c EXCEPT !.current_adjustment = ConnectedAdjustment]
            IN  IF c1.max_current > MinChargeCurrent
                    THEN SetControlPilot(c1, ChargeSignal(c1))
                    ELSE c1
      [] c.state = "Error" -> OpenRelays(SetControlPilot(c, SignalError))
      [] c.state \in {"Stopping", "ShuttingDown"} -> SetControlPilot(c, Standby)
      [] c.state = "Shutdown" ->
            [c EXCEPT !.watchdog = "stopped", !.log = Append(@, "watchdog_stop")]
      [] OTHER -> c

\* (mutant) the entry actions run but the state is not published
EntryActionsUnpublished(c) ==
    IF c.prev_state # c.state
        THEN [EntryAction(c) EXCEPT !.prev_state = c.state]
        ELSE c

\* if prev_state != self.state { ...; status.state = self.state; prev_state = self.state }
EntryActions(c) ==
    IF c.prev_state # c.state
        THEN LET c1 == EntryAction(c)
             IN  [c1 EXCEPT !.status = [@ EXCEPT !.state = c1.state],
                            !.prev_state = c1.state]
        ELSE c

\* One iteration of the loop; a panic ends it where it happens
Iteration(c, m, mv, is_high, cur) ==
    LET c1 == ReceiveCommand(TickStart(c), m)
    IN  IF c1.panicked THEN c1
        ELSE LET c2 == SafetyCheck(c1, is_high)
                 c3 == Body([c2 EXCEPT !.body_state = c2.state], CpState(mv), cur)
             IN  IF c3.panicked THEN c3 ELSE TickEnd(EntryActions(c3))

\* The controller's fields and loop locals as one record; late_main and
\* late_3_phase say whether a due helper of that relay writes late
Controller(late_main, late_3_phase) ==
    [late_main |-> late_main, late_3_phase |-> late_3_phase, state |-> state, max_power |-> max_power, max_current |-> max_current,
     three_phase |-> three_phase, current_adjustment |-> current_adjustment,
     status |-> status, changing_power |-> FALSE,
     next_current_adjustment |-> next_current_adjustment,
     prev_state |-> prev_state, stop_timeout |-> stop_timeout,
     relay_main |-> relay_main, relay_3_phase |-> relay_3_phase,
     control_pilot |-> control_pilot, watchdog |-> watchdog,
     panicked |-> panicked, body_state |-> body_state, log |-> log,
     set_error |-> FALSE]

\* x occurs in the sequence s
Contains(s, x) == \E k \in DOMAIN s : s[k] = x

\* x occurs in s and some y occurs after it
Precedes(s, x, y) == \E k, l \in DOMAIN s : k < l /\ s[k] = x /\ s[l] = y

\* The relays a tick that set the state to Error leaves commanded ON
ErrorDue(c) ==
    IF c.set_error
        THEN (IF c.relay_main.state THEN {"relay_main"} ELSE {})
             \cup (IF c.relay_3_phase.state THEN {"relay_3_phase"} ELSE {})
        ELSE {}

----------------------------------------------------------------------------
(* gpio.rs: RelayPin, step by step.  set_level is three steps of the       *)
(* controller's thread: the swap of state, the write of the duty, the      *)
(* spawn of the helper.  A helper thread is two steps: after its sleep it  *)
(* loads state, and if it loaded true it writes the holding duty.  The     *)
(* steps of the threads interleave freely.                                 *)

MaxHelpers == 3

\* RelayPin::new: duty 0, state false, no call in progress
RelayCallIdle == [pc |-> "idle", level |-> FALSE, old_level |-> FALSE]
NoHelpers == [sleeping |-> 0, loaded |-> 0, spawned |-> 0]
NoOldHelpers == [sleeping |-> 0, loaded |-> 0]

\* let old_level = self.state.swap(level, Relaxed)
RelaySwap(level) ==
    /\ rp_call.pc = "idle"
    /\ level /\ ~rp_state => rp_helpers.spawned < MaxHelpers
    /\ rp_state' = level
    /\ rp_call' = [pc |-> "swapped", level |-> level, old_level |-> rp_state]
    /\ UNCHANGED << rp_duty, rp_helpers, rp_old, notRelayVars >>

\* if !level { set_duty(0) } else if !old_level { set_duty(get_max_duty()) ... }
RelayWriteDuty ==
    /\ rp_call.pc = "swapped"
    /\ IF ~rp_call.level
          THEN rp_duty' = 0 /\ rp_call' = [rp_call EXCEPT !.pc = "idle"]
       ELSE IF ~rp_call.old_level
          THEN rp_duty' = RelayMaxDuty /\ rp_call' = [rp_call EXCEPT !.pc = "spawn"]
       ELSE rp_duty' = rp_duty /\ rp_call' = [rp_call EXCEPT !.pc = "idle"]
    /\ UNCHANGED << rp_state, rp_helpers, rp_old, notRelayVars >>

\* thread::spawn(move || { sleep(RELAY_SWITCH_DURATION); ... })
RelaySpawn ==
    /\ rp_call.pc = "spawn"
    /\ rp_helpers' = [rp_helpers EXCEPT !.sleeping = @ + 1, !.spawned = @ + 1]
    /\ rp_old' = [sleeping |-> rp_helpers.sleeping, loaded |-> rp_helpers.loaded]
    /\ rp_call' = [rp_call EXCEPT !.pc = "idle"]
    /\ UNCHANGED << rp_state, rp_duty, notRelayVars >>

\* Which helper takes the step, of `all` at that position, `old` of them
\* spawned before the most recent OFF -> ON: TRUE for one of those
OldOrLatest(all, old) ==
    (IF old > 0 THEN {TRUE} ELSE {}) \cup (IF all > old THEN {FALSE} ELSE {})

\* the helper: if s.load(Relaxed) { ... }
HelperLoad ==
    /\ rp_helpers.sleeping > 0
    /\ rp_helpers' = [rp_helpers EXCEPT !.sleeping = @ - 1,
                                        !.loaded = IF rp_state THEN @ + 1 ELSE @]
    /\ \E old \in OldOrLatest(rp_helpers.sleeping, rp_old.sleeping) :
          rp_old' = IF old
                       THEN [sleeping |-> rp_old.sleeping - 1,
                             loaded |-> IF rp_state THEN rp_old.loaded + 1
                                                    ELSE rp_old.loaded]
                       ELSE rp_old
    /\ UNCHANGED << rp_state, rp_duty, rp_call, notRelayVars >>

\* the helper: p.set_duty(p.get_max_duty() / 100 * RELAY_HOLDING_DUTY)
HelperWrite ==
    /\ rp_helpers.loaded > 0
    /\ rp_duty' = HoldingDuty
    /\ rp_helpers' = [rp_helpers EXCEPT !.loaded = @ - 1]
    /\ \E old \in OldOrLatest(rp_helpers.loaded, rp_old.loaded) :
          rp_old' = IF old THEN [rp_old EXCEPT !.loaded = @ - 1] ELSE rp_old
    /\ UNCHANGED << rp_state, rp_call, notRelayVars >>

----------------------------------------------------------------------------
(* current_meter.rs.  A meter is the record of its fields; stats is the    *)
(* cell it publishes to.  State::WaitingPosEdge(b) and State::Active(b)    *)
(* are the state with prev_over = b.  extra is the extra resistor in       *)
(* tenths of an ohm.  The arithmetic is that of i32 as long as the sums    *)
(* stay under 2^31, which the sample values of MeterSpec make sure of.     *)

VREF_MV == 1200
DEADZONE_MV == 70
WAVELENGTH == 200
WAVELENGTH_ERROR == 20
CalibrationSamples == WAVELENGTH * 25
FoldMin == 10000
SqrtStart == 270
CtRatio == 600
ShuntTenths == 150

Max(a, b) == IF a > b THEN a ELSE b

\* Rust's integer division, which truncates toward zero
TruncDiv(a, b) ==
    IF (a >= 0) = (b > 0) THEN Abs(a) \div Abs(b) ELSE -(Abs(a) \div Abs(b))

\* x -= (x * x - n) / 2 / x
SqrtStep(x, n) == x - TruncDiv(TruncDiv(x * x - n, 2), x)

\* (mutant) four iterations
sqrtFourSteps(n) ==
    IF n < 2 THEN n
    ELSE SqrtStep(SqrtStep(SqrtStep(SqrtStep(SqrtStart, n), n), n), n)

\* fn sqrt(n: i32) -> i32
sqrt(n) ==
    IF n < 2 THEN n
    ELSE SqrtStep(SqrtStep(SqrtStep(SqrtStep(SqrtStep(SqrtStart, n), n), n), n), n)

\* rms as f32 * self.rms_mv_to_ma, as u32; rms_mv_to_ma = 600 / (15 + extra)
RmsToMa(rms, extra) == (rms * CtRatio * 10) \div (ShuntTenths + extra)

\* CurrentMeter::new, with the cell at its initial 0
CurrentMeterNew ==
    [vref |-> VREF_MV, count |-> 0, square_sum |-> 0, state |-> "Calibration",
     prev_over |-> FALSE, min |-> FoldMin, max |-> 0, extra |-> 8]

\* CurrentMeter::reset
MeterReset(m) ==
    [m EXCEPT !.square_sum = 0, !.count = 0, !.min = FoldMin, !.max = 0]

\* calibrate: the loop over the batch
RECURSIVE CalibrateLoop(_, _, _)
CalibrateLoop(m, data, i) ==
    IF i > Len(data) THEN m
    ELSE CalibrateLoop([m EXCEPT !.square_sum = @ + data[i],
                                 !.count = @ + 1,
                                 !.min = Min(@, data[i]),
                                 !.max = Max(@, data[i])], data, i + 1)

\* CurrentMeter::calibrate
calibrate(r, data) ==
    LET m == CalibrateLoop(r, data, 1)
    IN  IF m.count >= CalibrationSamples
            THEN [MeterReset([m EXCEPT !.vref = TruncDiv(m.square_sum, m.count)])
                     EXCEPT !.state = "Idle"]
            ELSE m

\* data.fold((10000, 0), |acc, d| (min(acc.0, d), max(acc.0, d)))
RECURSIVE IdleFold(_, _, _)
IdleFold(acc, data, i) ==
    IF i > Len(data) THEN acc
    ELSE IdleFold(<< Min(acc[1], data[i]), Max(acc[1], data[i]) >>, data, i + 1)

\* CurrentMeter::idle
idle(r, data) ==
    LET mm == IdleFold(<< FoldMin, 0 >>, data, 1)
    IN  IF mm[1] < r.vref - DEADZONE_MV
            THEN [r EXCEPT !.state = "WaitingPosEdge", !.prev_over = FALSE]
        ELSE IF mm[2] > r.vref + DEADZONE_MV
            THEN [r EXCEPT !.state = "WaitingPosEdge", !.prev_over = TRUE]
        ELSE r

\* (mutant) the resynchronisation leaves the cell as it is
MeterResyncKeepsCell(r) ==
    [MeterReset([r EXCEPT !.state = "Calibration"]) EXCEPT !.returned = TRUE]

\* Wave too long or too short: back to Calibration, publish 0, return
MeterResync(r) ==
    [MeterReset([r EXCEPT !.state = "Calibration"])
        EXCEPT !.stats = 0, !.returned = TRUE]

\* (mutant) a rising edge in Active publishes a wave of any length up to 220
ProcessSampleAnyLength(r0, d) ==
    LET over == d > r0.vref + DEADZONE_MV
        under == d < r0.vref - DEADZONE_MV
        r == [r0 EXCEPT !.count = @ + 1]
    IN  IF r.state = "WaitingPosEdge"
            THEN IF r.count > WAVELENGTH + WAVELENGTH_ERROR THEN MeterResync(r)
                 ELSE IF r.prev_over /\ under THEN [r EXCEPT !.prev_over = FALSE]
                 ELSE IF ~r.prev_over /\ over
                    THEN MeterReset([r EXCEPT !.state = "Active", !.prev_over = TRUE])
                 ELSE r
        ELSE IF r.state = "Active"
            THEN LET a == [r EXCEPT !.square_sum = @ + (d - r.vref) * (d - r.vref)]
                 IN  IF a.count > WAVELENGTH + WAVELENGTH_ERROR THEN MeterResync(a)
                     ELSE IF a.prev_over /\ under THEN [a EXCEPT !.prev_over = FALSE]
                     ELSE IF ~a.prev_over /\ over
                        THEN IF FALSE
                                THEN MeterResync(a)
                                ELSE MeterReset(
                                       [a EXCEPT !.stats = RmsToMa(sqrt(TruncDiv(a.square_sum, a.count)), a.extra),
                                                 !.prev_over = TRUE])
                     ELSE a
        ELSE r

\* process: the loop body for one sample d
ProcessSample(r0, d) ==
    LET over == d > r0.vref + DEADZONE_MV
        under == d < r0.vref - DEADZONE_MV
        r == [r0 EXCEPT !.count = @ + 1]
    IN  IF r.state = "WaitingPosEdge"
            THEN IF r.count > WAVELENGTH + WAVELENGTH_ERROR THEN MeterResync(r)
                 ELSE IF r.prev_over /\ under THEN [r EXCEPT !.prev_over = FALSE]
                 ELSE IF ~r.prev_over /\ over
                    THEN MeterReset([r EXCEPT !.state = "Active", !.prev_over = TRUE])
                 ELSE r
        ELSE IF r.state = "Active"
            THEN LET a == [r EXCEPT !.square_sum = @ + (d - r.vref) * (d - r.vref)]
                 IN  IF a.count > WAVELENGTH + WAVELENGTH_ERROR THEN MeterResync(a)
                     ELSE IF a.prev_over /\ under THEN [a EXCEPT !.prev_over = FALSE]
                     ELSE IF ~a.prev_over /\ over
                        THEN IF a.count < WAVELENGTH - WAVELENGTH_ERROR
                                THEN MeterResync(a)
                                ELSE MeterReset(
                                       [a EXCEPT !.stats = RmsToMa(sqrt(TruncDiv(a.square_sum, a.count)), a.extra),
                                                 !.prev_over = TRUE])
                     ELSE a
        ELSE r

\* CurrentMeter::process
RECURSIVE process(_, _, _)
process(r, data, i) ==
    IF i > Len(data) \/ r.returned THEN r
    ELSE process(ProcessSample(r, data[i]), data, i + 1)

\* CurrentMeter::receive on the meter m publishing to a cell that holds stats
receive(m, stats, data) ==
    LET r == [vref |-> m.vref, count |-> m.count, square_sum |-> m.square_sum,
              state |-> m.state, prev_over |-> m.prev_over, min |-> m.min,
              max |-> m.max, extra |-> m.extra, stats |-> stats, returned |-> FALSE]
    IN  CASE r.state = "Calibration" -> calibrate(r, data)
          [] r.state = "Idle" -> idle(r, data)
          [] OTHER -> process(r, data, 1)

\* The fields of the meter in what receive returns
MeterOf(r) ==
    [vref |-> r.vref, count |-> r.count, square_sum |-> r.square_sum,
     state |-> r.state, prev_over |-> r.prev_over, min |-> r.min,
     max |-> r.max, extra |-> r.extra]

\* No sample received yet
NothingFed == [v |-> -1, n |-> 0]

\* receive not called yet
NoReceive == [batch |-> << >>, state |-> "none", count |-> 0, stats |-> 0]

----------------------------------------------------------------------------
(* logger.rs: StringRingBuffer<S>.  data is the byte array (index p of the *)
(* source is element p + 1 here), a message is a sequence of bytes.  The   *)
(* n-th call of append passes a message of n-valued bytes, so that every   *)
(* message and every left-over of one can be told apart, or such a message *)
(* with a zero byte in it (a &str may hold U+0000); the code looks at no   *)
(* byte's value but to compare it with 0.                                  *)

RingSize == 6
MaxAppends == 4

\* StringRingBuffer::default
RingDefault ==
    [data |-> [p \in 1..RingSize |-> 0],
     read_position |-> 0, write_position |-> 0, size |-> 0]

\* The message of len bytes that the n-th append passes; its byte at
\* position zero_at, if it has one, is 0
RingMessage(n, len, zero_at) == [p \in 1..len |-> IF p = zero_at THEN 0 ELSE n]

\* Where the messages of the model have a zero byte: nowhere, or in second place
ZeroPlaces == {0, 2}

\* StringRingBuffer::str_len, -1 for None
RECURSIVE StrLenFrom(_, _, _)
StrLenFrom(b, position, len) ==
    IF position + len < b.size /\ b.data[position + len + 1] # 0
        THEN StrLenFrom(b, position, len + 1)
        ELSE len

str_len(b, position) ==
    IF position = b.size THEN -1 ELSE StrLenFrom(b, position, 0)

\* StringRingBuffer::advance_read_position
RECURSIVE advance_read_position(_, _)
advance_read_position(b, minimum_position) ==
    IF b.read_position < minimum_position
        THEN IF str_len(b, b.read_position) # -1
                THEN advance_read_position(
                        [b EXCEPT !.read_position = @ + str_len(b, @) + 1],
                        minimum_position)
                ELSE [b EXCEPT !.read_position = 0, !.size = minimum_position]
        ELSE b

\* append: "Find write position if near the end of buffer"
RingWrap(b, data_len) ==
    IF b.write_position + data_len > RingSize
        THEN [b EXCEPT !.size = b.write_position,
                       !.write_position = 0, !.read_position = 0]
        ELSE b

\* append: "Advance read position so we don't overwrite it"
RingMakeRoom(b, data_len) ==
    IF b.write_position <= b.read_position
          /\ b.read_position < b.write_position + data_len
        THEN advance_read_position(b, b.write_position + data_len)
        ELSE b

\* append: "Write our data"; the slice and the index panic out of range
RingWritePanics(b, data_len) == b.write_position + data_len > RingSize

RingWrite(b, message, data_len) ==
    [b EXCEPT
        !.data = [p \in 1..RingSize |->
                    IF p > b.write_position /\ p < b.write_position + data_len
                        THEN message[p - b.write_position]
                    ELSE IF p = b.write_position + data_len THEN 0
                    ELSE b.data[p]],
        !.write_position = b.write_position + data_len,
        !.size = Max(b.size, b.write_position + data_len)]

\* Whether append returns at once
RingRejects(message) == Len(message) = 0 \/ Len(message) >= RingSize

\* StringRingBuffer::append: the buffer after the call, and whether it panicked
RingAppend(b, message) ==
    IF RingRejects(message) THEN [buffer |-> b, panic |-> FALSE]
    ELSE LET data_len == Len(message) + 1
             room == RingMakeRoom(RingWrap(b, data_len), data_len)
         IN  IF RingWritePanics(room, data_len)
                THEN [buffer |-> room, panic |-> TRUE]
                ELSE [buffer |-> RingWrite(room, message, data_len), panic |-> FALSE]

\* StringRingBufferIterator::next, collected: what iter() yields, in order
RECURSIVE RingIterNext(_, _, _)
RingIterNext(b, position, wrapped) ==
    IF position >= b.write_position /\ wrapped THEN << >>
    ELSE IF str_len(b, position) # -1
        THEN LET len == str_len(b, position)
             IN  << [p \in 1..len |-> b.data[position + p]] >>
                 \o RingIterNext(b, position + len + 1, wrapped)
    ELSE IF wrapped THEN << >>
    ELSE RingIterNext(b, 0, TRUE)

\* StringRingBuffer::iter
RingIter(b) ==
    RingIterNext(b, Min(b.read_position, b.size),
                 b.read_position < b.write_position)

----------------------------------------------------------------------------
(* led.rs: LedController and its thread.  A colour is a number, 0 for      *)
(* Color::OFF; the n-th call of set_color passes colour n, so that the     *)
(* calls the driver receives tell which pattern was shown.  A pattern item *)
(* is [color, duration], duration 0 for Duration::ZERO.  The pattern is    *)
(* behind a mutex: set_pattern holds it from the clear to the send, the    *)
(* thread from the lock to the end of the block that calls set_rgb, so     *)
(* each of the two is one step.                                            *)

MaxSetColors == 3

ColorOff == 0

\* LedPatternItem::fixed
LedFixed(color) == [color |-> color, duration |-> 0]

\* LedControllerThread::run, the block under the lock: the index, the colour
\* passed to set_rgb and the wait
LedShown(pattern, i) ==
    LET j == i % Len(pattern)
    IN  [i |-> j, color |-> pattern[j + 1].color, wait |-> pattern[j + 1].duration]

\* What recv, or recv_timeout(wait), can return; empty while recv blocks
LedReceived(chan, wait) ==
    IF chan # << >> THEN {Head(chan)}
    ELSE IF wait # 0 THEN {"Timeout"}
    ELSE {}

\* match command: the next index, or that the loop breaks
LedMatch(command, i) ==
    CASE command = "Exit" -> [i |-> i, done |-> TRUE]
      [] command = "Change" -> [i |-> 0, done |-> FALSE]
      [] OTHER -> [i |-> i + 1, done |-> FALSE]

\* (mutant) set_pattern does not notify the thread
LedNotifyNever(chan) == chan

\* set_pattern: self.tx.send(LedControllerCommand::Change)
LedNotify(chan) == Append(chan, "Change")

----------------------------------------------------------------------------
(* PhiEvseController::new and the part of run() before the loop: the CP    *)
(* signal is Standby, the watchdog is armed, the relays are off            *)
(* (RelayPin::new).                                                        *)

Init ==
    /\ state = "NotConnected"
    /\ max_power = 0
    /\ max_current = 0
    /\ three_phase = FALSE
    /\ current_adjustment = 0
    /\ status = [power |-> 0, state |-> "NotConnected", max_power |-> 0]
    /\ next_current_adjustment = 0
    /\ prev_state = "NotConnected"
    /\ stop_timeout = 0
    /\ relay_main = RelayOff
    /\ relay_3_phase = RelayOff
    /\ control_pilot = Standby
    /\ watchdog = "armed"
    /\ panicked = FALSE
    /\ msg = NoMsg
    /\ cp_mv \in CpMvValues
    /\ pilot_negative = TRUE
    /\ current = <<0, 0, 0>>
    /\ start_state = "NotConnected"
    /\ body_state = "NotConnected"
    /\ log = << >>
    /\ err_due = {}
    /\ commands = 0
    /\ changes = 0
    /\ fn = "none"
    /\ arg = 0
    /\ ret = 0
    /\ rp_state = FALSE
    /\ rp_duty = 0
    /\ rp_call = RelayCallIdle
    /\ rp_helpers = NoHelpers
    /\ rp_old = NoOldHelpers
    /\ queue = << >>
    /\ sent = << >>
    /\ consumed = << >>
    /\ cm = CurrentMeterNew
    /\ cm_stats = 0
    /\ cm_fed = NothingFed
    /\ cm_last = NoReceive
    /\ over_ticks = 0
    /\ rb = RingDefault
    /\ rb_panicked = FALSE
    /\ rb_last = << >>
    /\ rb_accepted = << >>
    /\ rb_appends = 0
    /\ led_pattern = << LedFixed(ColorOff) >>
    /\ led_chan = << >>
    /\ led_pc = "show"
    /\ led_i = 0
    /\ led_wait = 0
    /\ led_calls = << >>
    /\ led_set = << >>
    /\ led_quiet = TRUE
    /\ led_dropped = FALSE

\* What try_recv can return: nothing, or the command at the head of the queue
Received == IF commands < MaxCommands THEN Messages \cup {NoMsg} ELSE {NoMsg}

\* What the tick can read: the inputs as they were, or one of them changed
Inputs ==
    {<<cp_mv, pilot_negative, current>>}
    \cup IF changes < MaxChanges
            THEN {<<mv, pilot_negative, current>> : mv \in CpMvValues}
                 \cup {<<cp_mv, h, current>> : h \in BOOLEAN}
                 \cup {<<cp_mv, pilot_negative, cur>> : cur \in CurrentReadings}
            ELSE {}

\* Whether a helper can write late in the coming tick
LateChoices(relay) == IF relay.helper = "new" THEN BOOLEAN ELSE {FALSE}

\* The tick that receives m, reads inp and in which the helpers write late
\* as late_main and late_3_phase say
Step(m, inp, late_main, late_3_phase) ==
    \E c \in {Iteration(Controller(late_main, late_3_phase),
                        m, inp[1], inp[2], inp[3])} :
        /\ state' = c.state
        /\ max_power' = c.max_power
        /\ max_current' = c.max_current
        /\ three_phase' = c.three_phase
        /\ current_adjustment' = c.current_adjustment
        /\ status' = c.status
        /\ next_current_adjustment' = c.next_current_adjustment
        /\ prev_state' = c.prev_state
        /\ stop_timeout' = c.stop_timeout
        /\ relay_main' = c.relay_main
        /\ relay_3_phase' = c.relay_3_phase
        /\ control_pilot' = c.control_pilot
        /\ watchdog' = c.watchdog
        /\ panicked' = c.panicked
        /\ start_state' = state
        /\ body_state' = c.body_state
        /\ log' = c.log
        /\ err_due' = ErrorDue(c)
        /\ msg' = m
        /\ cp_mv' = inp[1]
        /\ pilot_negative' = inp[2]
        /\ current' = inp[3]
        /\ commands' = IF m = NoMsg THEN commands ELSE commands + 1
        /\ changes' = IF inp = <<cp_mv, pilot_negative, current>>
                         THEN changes ELSE changes + 1

Tick ==
    /\ ~panicked
    /\ \E m \in Received, inp \in Inputs,
          late_main \in LateChoices(relay_main),
          late_3_phase \in LateChoices(relay_3_phase) :
        Step(m, inp, late_main, late_3_phase)
    /\ UNCHANGED << fnVars, relayVars, queueVars, meterVars, extraVars >>

Next == Tick

Spec == Init /\ [][Next]_vars

----------------------------------------------------------------------------
(* FnSpec: the pure functions, each applied along a sweep of its argument  *)
(* from 0 upwards, or from a little below a boundary between two arms;    *)
(* the sweep of a u32 argument also starts at a value above every          *)
(* threshold of the function.                                              *)

DutySweepEnd == 32002
PowerSweepEnd == 11100

\* The arguments the sweep of f, which ends at last, can take next
SweepNext(f, last, starts) ==
    IF fn = "none" THEN starts
    ELSE IF fn = f /\ arg < last THEN {arg + 1}
    ELSE {}

ApplyCurrentToDuty ==
    /\ \E ma \in SweepNext("current_to_duty", DutySweepEnd, {0, 10990, 2147483647}) :
          /\ fn' = "current_to_duty"
          /\ arg' = ma
          /\ ret' = [duty |-> current_to_duty(ma), wraps |-> current_to_duty_wraps(ma)]
    /\ UNCHANGED << controllerVars, relayVars, queueVars, meterVars, extraVars >>

ApplyCalculatePower ==
    /\ \E watts \in SweepNext("calculate_power", PowerSweepEnd, {0, 1490}) :
          /\ fn' = "calculate_power"
          /\ arg' = watts
          /\ ret' = calculate_power(watts)
    /\ UNCHANGED << controllerVars, relayVars, queueVars, meterVars, extraVars >>

\* The SetMaxPower arm of the command handling, on the controller as constructed
ApplySetMaxPower ==
    /\ \E watts \in SweepNext("SetMaxPower", PowerSweepEnd, {0, 2147483647}) :
        \E c \in {ReceiveSetMaxPower(Controller(FALSE, FALSE), watts)} :
          /\ fn' = "SetMaxPower"
          /\ arg' = watts
          /\ ret' = [max_power |-> c.max_power, status_max_power |-> c.status.max_power,
                     max_current |-> c.max_current, three_phase |-> c.three_phase,
                     changing_power |-> c.changing_power, panicked |-> c.panicked]
    /\ UNCHANGED << controllerVars, relayVars, queueVars, meterVars, extraVars >>

FnNext == ApplyCurrentToDuty \/ ApplyCalculatePower \/ ApplySetMaxPower

FnSpec == Init /\ [][FnNext]_vars

----------------------------------------------------------------------------
(* RelaySpec: one RelayPin, the controller calling set_level with either   *)
(* level at any time, and the helper threads.                              *)

SetLevel == \E level \in BOOLEAN : RelaySwap(level)

RelayNext == SetLevel \/ RelayWriteDuty \/ RelaySpawn \/ HelperLoad \/ HelperWrite

RelaySpec == Init /\ [][RelayNext]_vars

----------------------------------------------------------------------------
(* QueueSpec: the command channel between the senders (the HTTP and MQTT   *)
(* handlers, each with a clone of control_tx) and the controller, whose    *)
(* tick calls try_recv once.  The channel is std::sync::mpsc::channel():   *)
(* unbounded, and a receiver gets the messages in the order the sends      *)
(* took effect.  The tick's other inputs stay as they are in Init.         *)

MaxSent == 3

\* (mutant) try_recv returns the newest message
TryRecvNewest(q) ==
    IF q = << >> THEN [msg |-> NoMsg, rest |-> q]
    ELSE [msg |-> q[Len(q)], rest |-> SubSeq(q, 1, Len(q) - 1)]

\* self.control_rx.try_recv(): Err(Empty) on an empty channel, else the head
TryRecv(q) ==
    IF q = << >> THEN [msg |-> NoMsg, rest |-> q]
    ELSE [msg |-> Head(q), rest |-> Tail(q)]

\* control_tx.send(m) by any sender
Send ==
    /\ Len(sent) < MaxSent
    /\ \E m \in Messages :
          /\ queue' = Append(queue, m)
          /\ sent' = Append(sent, m)
    /\ UNCHANGED << consumed, controllerVars, fnVars, relayVars, meterVars, extraVars >>

TickQ ==
    /\ ~panicked
    /\ \E r \in {TryRecv(queue)},
          late_main \in LateChoices(relay_main),
          late_3_phase \in LateChoices(relay_3_phase) :
          /\ Step(r.msg, <<cp_mv, pilot_negative, current>>, late_main, late_3_phase)
          /\ queue' = r.rest
          /\ consumed' = IF r.msg = NoMsg THEN consumed ELSE Append(consumed, r.msg)
    /\ UNCHANGED << sent, fnVars, relayVars, meterVars, extraVars >>

QueueNext == Send \/ TickQ

QueueSpec == Init /\ [][QueueNext]_vars

----------------------------------------------------------------------------
(* MeterSpec: one CurrentMeter fed batches of one constant sample value.   *)

SampleValues == {1200, 1650}
BatchSizes == {0, 1, 2, 25}

Feed ==
    /\ \E v \in SampleValues, n \in BatchSizes :
          /\ cm_fed.v \in {-1, v}
          /\ \E r \in {receive(cm, cm_stats, [i \in 1..n |-> v])} :
                /\ cm' = MeterOf(r)
                /\ cm_stats' = r.stats
          /\ cm_fed' = [v |-> v, n |-> Min(cm_fed.n + n, CalibrationSamples)]
    /\ UNCHANGED << controllerVars, fnVars, relayVars, queueVars, extraVars >>

MeterNext == Feed

MeterSpec == Init /\ [][MeterNext]_vars

----------------------------------------------------------------------------
(* Claims *)

\* C1 (as claimed): entering Error always opens both relays before the next
\* tick completes: a relay that is still commanded ON at the end of a tick
\* that set the state to Error is commanded OFF at the end of the next tick.
C1_ErrorOpensRelays ==
    [][/\ "relay_main" \in err_due => ~relay_main'.state
       /\ "relay_3_phase" \in err_due => ~relay_3_phase'.state]_vars

\* C2: relay_main.set_level(true) is called, and the commanded level of
\* relay_main rises, only in a tick whose per-state body is that of Ready and
\* whose max_current exceeds 6000.
C2_MainRelayOnlyFromReady ==
    [][(Contains(log', "relay_main_on") \/ (~relay_main.state /\ relay_main'.state))
          => (body_state' = "Ready" /\ max_current' > MinChargeCurrent)]_vars

C2_Witness ==
    /\ Contains(log, "relay_main_on")
    /\ relay_main.state
    /\ body_state = "Ready"
    /\ state = "Charging"

\* C3 (as claimed): once the state is Shutdown at the end of a tick it is
\* Shutdown at the end of every later tick.
C3_ShutdownAbsorbing ==
    [][state = "Shutdown" => state' = "Shutdown"]_vars

\* C4 (as claimed): the controller leaves Error only for NotConnected and only
\* in a tick whose CP mode reading is NotConnected.
C4_ErrorLeftOnlyOnDisconnect ==
    [][(state = "Error" /\ state' # "Error")
          => (state' = "NotConnected" /\ CpState(cp_mv') = "NotConnected")]_vars

\* C4 (amended): the controller leaves Error only for NotConnected, in a tick
\* whose CP mode reading is NotConnected, or for Shutdown, in a tick that
\* consumes a Shutdown command while the negative-rail pin is high; SetMaxPower
\* does not take it out of Error.
C4_ErrorExits ==
    [][(state = "Error" /\ state' # "Error")
          => \/ (state' = "NotConnected" /\ CpState(cp_mv') = "NotConnected")
             \/ (state' = "Shutdown" /\ msg'.type = "Shutdown" /\ pilot_negative')]_vars

C4_Witness ==
    /\ start_state = "Error"
    /\ state = "NotConnected"
    /\ pilot_negative
    /\ msg.type = "SetMaxPower"

\* relay_main, then relay_3_phase, were commanded OFF
OpenedInOrder(l, main, phase) ==
    /\ Precedes(l, "relay_main_off_wait", "relay_3_phase_off")
    /\ ~main.state
    /\ ~phase.state

\* C5: in a tick that runs the Charging body with next_current_adjustment = 0
\* and CP mode Ready, a current per phase of at least 1000 and above
\* max_current + 4000 makes the state Error, the CP signal Error and the
\* relays commanded OFF, main first, in that tick.
C5_OverCurrentAbort ==
    [][(/\ body_state' = "Charging"
        /\ msg'.type # "SetMaxPower"
        /\ next_current_adjustment = 0
        /\ CpState(cp_mv') = "Ready"
        /\ MampsPerPhase(current', three_phase') >= NotChargingMamps
        /\ MampsPerPhase(current', three_phase') > max_current' + OverCurrentMargin)
          => (/\ state' = "Error"
              /\ control_pilot' = SignalError
              /\ OpenedInOrder(log', relay_main', relay_3_phase'))]_vars

C5_Witness ==
    /\ body_state = "Charging"
    /\ state = "Error"
    /\ pilot_negative
    /\ CpState(cp_mv) = "Ready"
    /\ three_phase
    /\ MampsPerPhase(current, three_phase) > max_current + OverCurrentMargin
    /\ control_pilot = SignalError
    /\ ~relay_main.state

\* C6 (as claimed): the Stopping body never completes its stop in a tick whose
\* CP mode is Ready, so that its unreachable!() is never executed.
C6_StoppingNeverReady ==
    ~(panicked /\ body_state = "Stopping" /\ CpState(cp_mv) = "Ready")

\* C7: current_adjustment is within [-1000, +1000] in every reachable state.
C7_AdjustmentBounded ==
    -AdjustmentLimit <= current_adjustment /\ current_adjustment <= AdjustmentLimit

C7_Witness ==
    /\ state = "Charging"
    /\ current_adjustment = -AdjustmentLimit
    /\ next_current_adjustment = AdjustSettleTicks
    /\ Contains(log, "cp_Charge")

\* C8 (as claimed): whenever the state is Charging at the end of a tick, the
\* published power is the sum of the three cells of that tick * 230 / 1000.
C8_PowerWheneverCharging ==
    state = "Charging" => status.power = (TotalMamps(current) * GridVolts) \div 1000

\* C8 (amended): whenever the state is Charging at the end of a tick that ran
\* the Charging body (every Charging tick but the one that enters Charging from
\* Ready), the published power is the sum of the three cells * 230 / 1000.
C8_PowerInChargingBody ==
    (state = "Charging" /\ body_state = "Charging")
        => status.power = (TotalMamps(current) * GridVolts) \div 1000

C8_Witness ==
    /\ state = "Charging"
    /\ body_state = "Charging"
    /\ current = <<5800, 0, 0>>
    /\ status.power = 1334

\* C9 (as claimed): a Shutdown command consumed in Charging with the
\* negative-rail pin high leaves the state ShuttingDown with stop_timeout = 50
\* and the CP signal Standby, never Shutdown directly.
C9_ShutdownNeverDirect ==
    [][(state = "Charging" /\ msg'.type = "Shutdown" /\ pilot_negative')
          => (/\ state' = "ShuttingDown"
              /\ stop_timeout' = StopTimeoutTicks
              /\ control_pilot' = Standby)]_vars

\* C9 (amended): a Shutdown command consumed in Charging with the negative-rail
\* pin high runs the ShuttingDown body in the same tick: if the sum of the
\* phase currents is 0 the relays are commanded OFF, main first, and the tick
\* ends in Shutdown; otherwise it ends in ShuttingDown with stop_timeout = 49
\* and the CP signal Standby.  From ShuttingDown (pin high, no command) a tick
\* commands the relays OFF, main first, and ends in Shutdown as soon as the sum
\* is 0 or stop_timeout is 0, and otherwise counts stop_timeout down by one, so
\* that the stop completes at the latest 50 ticks after the command's tick;
\* from Shutdown (pin high, no command) state and status.state stay Shutdown.
C9_GracefulShutdown ==
    [][/\ (state = "Charging" /\ msg'.type = "Shutdown" /\ pilot_negative')
            => IF TotalMamps(current') = 0
                 THEN /\ state' = "Shutdown"
                      /\ OpenedInOrder(log', relay_main', relay_3_phase')
                 ELSE /\ state' = "ShuttingDown"
                      /\ stop_timeout' = StopTimeoutTicks - 1
                      /\ control_pilot' = Standby
       /\ (state = "ShuttingDown" /\ msg' = NoMsg /\ pilot_negative')
            => IF TotalMamps(current') = 0 \/ stop_timeout = 0
                 THEN /\ state' = "Shutdown"
                      /\ OpenedInOrder(log', relay_main', relay_3_phase')
                 ELSE /\ state' = "ShuttingDown"
                      /\ stop_timeout' = stop_timeout - 1
       /\ state' = "ShuttingDown"
            => (0 <= stop_timeout' /\ stop_timeout' < StopTimeoutTicks)
       /\ (state = "Shutdown" /\ msg' = NoMsg /\ pilot_negative')
            => (state' = "Shutdown" /\ status'.state = "Shutdown")]_vars

C9_Witness ==
    /\ start_state = "ShuttingDown"
    /\ state = "Shutdown"
    /\ status.state = "Shutdown"
    /\ pilot_negative
    /\ msg = NoMsg
    /\ TotalMamps(current) # 0
    /\ stop_timeout = 0
    /\ ~relay_main.state

\* C10 (as claimed): in a tick that runs the Charging body with
\* next_current_adjustment = 0, a CP mode other than Ready leaves the state
\* Stopping with stop_timeout = 50 and the CP signal Standby; from Stopping
\* (pin high, no Shutdown command) a tick commands the relays OFF, main first,
\* as soon as the sum of the phase currents is 0 or stop_timeout has run out,
\* at the latest 51 ticks after Stopping was entered, and the state becomes
\* NotConnected or Connected as the CP mode of that tick says.
C10_VehicleStop ==
    [][/\ (/\ body_state' = "Charging"
           /\ msg'.type # "SetMaxPower"
           /\ next_current_adjustment = 0
           /\ CpState(cp_mv') # "Ready")
            => (/\ state' = "Stopping"
                /\ stop_timeout' = StopTimeoutTicks
                /\ control_pilot' = Standby)
       /\ (state = "Stopping" /\ msg'.type # "Shutdown" /\ pilot_negative')
            => IF TotalMamps(current') = 0 \/ stop_timeout = 0
                 THEN /\ OpenedInOrder(log', relay_main', relay_3_phase')
                      /\ state' \in {"NotConnected", "Connected"}
                      /\ state' = CpState(cp_mv')
                 ELSE /\ state' = "Stopping"
                      /\ stop_timeout' = stop_timeout - 1
       /\ state' = "Stopping"
            => (0 <= stop_timeout' /\ stop_timeout' <= StopTimeoutTicks)]_vars

\* C11 (as claimed): current_to_duty is monotone non-decreasing on
\* [6000, 32000] (the duty of ma + 1 is never below the duty of ma) and is 0
\* below 6000 and above 32000.
C11_DutyMonotone ==
    [][fn' = "current_to_duty" =>
        /\ (fn = "current_to_duty" /\ arg' = arg + 1
              /\ MinChargeCurrent <= arg /\ arg' <= MaxChargeMamps)
            => ret.duty <= ret'.duty
        /\ (arg' < MinChargeCurrent \/ arg' > MaxChargeMamps) => ret'.duty = 0]_vars

\* C12 (as claimed): calculate_power(0) = (0, false), (1495) = (0, false),
\* (1500) = (6521, false), (3680) = (16000, false), (4600) = (16000, false),
\* (11000) = (15942, true).
C12_PowerAnchors ==
    fn = "calculate_power" =>
        /\ arg = 0 => (ret.max_current = 0 /\ ~ret.three_phase)
        /\ arg = 1495 => (ret.max_current = 0 /\ ~ret.three_phase)
        /\ arg = 1500 => (ret.max_current = 6521 /\ ~ret.three_phase)
        /\ arg = 3680 => (ret.max_current = 16000 /\ ~ret.three_phase)
        /\ arg = 4600 => (ret.max_current = 16000 /\ ~ret.three_phase)
        /\ arg = 11000 => (ret.max_current = 15942 /\ ret.three_phase)

\* C12 (amended): calculate_power(0) = (0, false), (1494) = (0, false),
\* (1495) = (6500, false), (1500) = (6521, false), (3680) = (16000, false),
\* (4599) = (16000, false), (4600) = (6666, true), (11000) = (15942, true),
\* none of them through the unreachable!() arm.
C12_PowerAnchorsOfTheCode ==
    fn = "calculate_power" =>
        /\ arg = 0 => (ret.max_current = 0 /\ ~ret.three_phase)
        /\ arg = 1494 => (ret.max_current = 0 /\ ~ret.three_phase)
        /\ arg = 1495 => (ret.max_current = 6500 /\ ~ret.three_phase)
        /\ arg = 1500 => (ret.max_current = 6521 /\ ~ret.three_phase)
        /\ arg = 3680 => (ret.max_current = 16000 /\ ~ret.three_phase)
        /\ arg = 4599 => (ret.max_current = 16000 /\ ~ret.three_phase)
        /\ arg = 4600 => (ret.max_current = 6666 /\ ret.three_phase)
        /\ arg = 11000 => (ret.max_current = 15942 /\ ret.three_phase)
        /\ arg \in {0, 1494, 1495, 1500, 3680, 4599, 4600, 11000} => ~ret.panic

C12_Witness ==
    /\ fn = "calculate_power"
    /\ arg = 4600
    /\ ret = [max_current |-> 6666, three_phase |-> TRUE, panic |-> FALSE]

\* C13: consuming SetMaxPower(watts) sets max_power to 0 when watts < 1500, to
\* watts when 1500 <= watts <= 11000 and to 11000 otherwise; with
\* total = max_power * 1000 / 230 it sets (max_current, three_phase) to
\* (0, false) for total in [0, 6499], (min(total, 16000), false) for
\* [6500, 19999] and (total / 3, true) for [20000, 47999]; it publishes
\* status.max_power = max_power and never reaches unreachable!().
C13_SetMaxPower ==
    fn = "SetMaxPower" =>
        LET p == IF arg < 1500 THEN 0 ELSE IF arg <= 11000 THEN arg ELSE 11000
            total == (ret.max_power * 1000) \div 230
        IN  /\ ret.max_power = p
            /\ ret.status_max_power = ret.max_power
            /\ ~ret.panicked
            /\ total <= 47999
            /\ total <= 6499 => (ret.max_current = 0 /\ ~ret.three_phase)
            /\ (6500 <= total /\ total <= 19999)
                => (ret.max_current = Min(total, 16000) /\ ~ret.three_phase)
            /\ (20000 <= total /\ total <= 47999)
                => (ret.max_current = total \div 3 /\ ret.three_phase)

C13_Witness ==
    /\ fn = "SetMaxPower"
    /\ arg = 11001
    /\ ret.max_power = 11000
    /\ ret.status_max_power = 11000
    /\ ret.max_current = 15942
    /\ ret.three_phase
    /\ ~ret.panicked

\* The duty range the test empirical_values lists for a current in amps
EmpiricalRange(amps) ==
    CASE amps = 6 -> 211..213
      [] amps = 7 -> 215..230
      [] amps = 8 -> 240..250
      [] amps = 9 -> 250..270
      [] amps = 10 -> 270..290
      [] amps = 11 -> 290..300
      [] amps = 12 -> 300..310
      [] amps = 13 -> 360..400
      [] amps = 14 -> 525..585
      [] amps = 15 -> 740..830
      [] amps = 16 -> 1030..1150

\* C14: for amps in 6..16 the duty current_to_duty returns for amps * 1000 mA
\* lies in the listed range, and for no argument does a step of the piecewise
\* u32 expressions overflow or underflow.
C14_EmpiricalAnchors ==
    fn = "current_to_duty" =>
        /\ ~ret.wraps
        /\ \A amps \in 6..16 : arg = amps * 1000 => ret.duty \in EmpiricalRange(amps)

C14_Witness ==
    /\ fn = "current_to_duty"
    /\ arg = 13000
    /\ ret.duty = 389
    /\ ~ret.wraps

\* C15 (as claimed): once set_level(false) has returned and no set_level(true)
\* has been issued since, the PWM duty of the relay pin is 0, whatever the
\* helper threads do.
C15_OffStaysOff ==
    (rp_call.pc = "idle" /\ ~rp_call.level) => rp_duty = 0

\* The call that sets the phase-selector relay to level and waits for it to settle
PhaseSelectorWait(level) ==
    IF level THEN "relay_3_phase_on_wait" ELSE "relay_3_phase_off_wait"

\* C16: in the tick that goes from Ready to Charging the phase-selector relay
\* is set to three_phase with its settle wait before relay_main is switched ON,
\* and relay_main is switched ON in no tick without that; in every tick that
\* completes a stop (the Stopping or ShuttingDown body with the sum of the
\* phase currents 0 or stop_timeout run out) and in every tick that ends
\* having entered Error, relay_main is switched OFF with its settle wait before
\* relay_3_phase is switched OFF, and both are then commanded OFF.
C16_RelaySequencing ==
    [][/\ (body_state' = "Ready" /\ state' = "Charging")
            => /\ Precedes(log', PhaseSelectorWait(three_phase'), "relay_main_on")
               /\ ~Contains(log', PhaseSelectorWait(~three_phase'))
               /\ relay_3_phase'.state = three_phase'
               /\ relay_main'.state
       /\ Contains(log', "relay_main_on")
            => Precedes(log', PhaseSelectorWait(three_phase'), "relay_main_on")
       /\ (/\ body_state' \in {"Stopping", "ShuttingDown"}
           /\ \/ TotalMamps(current') = 0
              \/ (state \in {"Stopping", "ShuttingDown"} /\ stop_timeout <= 0))
            => OpenedInOrder(log', relay_main', relay_3_phase')
       /\ (state' = "Error" /\ state # "Error")
            => OpenedInOrder(log', relay_main', relay_3_phase')
       /\ Contains(log', "relay_3_phase_off")
            => (Contains(log', "relay_main_off_wait") \/ body_state' = "Charging")]_vars

C16_Witness ==
    /\ start_state = "Stopping"
    /\ body_state = "Stopping"
    /\ state = "Connected"
    /\ three_phase
    /\ TotalMamps(current) # 0
    /\ Precedes(log, "relay_main_off_wait", "relay_3_phase_off")
    /\ ~relay_main.state
    /\ ~relay_3_phase.state

\* how often x occurs in the sequence s
Count(s, x) == Cardinality({k \in DOMAIN s : s[k] = x})

\* C17: the watchdog is armed once, before the first tick; every tick, in every
\* state, calls watchdog.reset() exactly once, as its first peripheral call;
\* watchdog.stop() is called only in a tick that ends having entered Shutdown,
\* as the last call of that tick.
C17_Watchdog ==
    /\ (watchdog = "armed" /\ log = << >>)
    /\ [][/\ log' # << >>
          /\ log'[1] = "watchdog_reset"
          /\ Count(log', "watchdog_reset") = 1
          /\ ~Contains(log', "watchdog_init")
          /\ Contains(log', "watchdog_stop")
                => /\ state' = "Shutdown"
                   /\ state # "Shutdown"
                   /\ log'[Len(log')] = "watchdog_stop"
                   /\ Count(log', "watchdog_stop") = 1
                   /\ watchdog' = "stopped"
          /\ ~Contains(log', "watchdog_stop") => watchdog' = watchdog]_vars

C17_Witness ==
    /\ start_state = "Shutdown"
    /\ state = "Error"
    /\ watchdog = "stopped"
    /\ log[1] = "watchdog_reset"
    /\ Count(log, "watchdog_reset") = 1
    /\ ~Contains(log, "watchdog_stop")

\* C18: a tick consumes at most one command and does not wait for one: it
\* takes the head of the queue if there is one and nothing otherwise; the
\* commands consumed so far followed by those still queued are the commands
\* sent, in the order of the sends, so that every command is consumed once, in
\* FIFO order, none is dropped, and a command behind k others is consumed k
\* ticks after the head.
C18_Fifo ==
    /\ [](sent = consumed \o queue)
    /\ [][sent' = sent =>
            IF queue = << >>
                THEN msg' = NoMsg /\ queue' = queue /\ consumed' = consumed
                ELSE /\ msg' = Head(queue)
                     /\ queue' = Tail(queue)
                     /\ consumed' = Append(consumed, Head(queue))
                     /\ commands' = commands + 1]_vars

C18_Witness ==
    /\ Len(sent) = 3
    /\ Len(consumed) = 2
    /\ Len(queue) = 1
    /\ sent[1].type = "Shutdown"
    /\ sent[2].type = "SetMaxPower"
    /\ sent[3] # sent[2]
    /\ msg = sent[2]
    /\ commands = 2

\* What a tick can read, whatever the tick before read
AnyInputs == CpMvValues \X BOOLEAN \X CurrentReadings

\* The controller after the tick that follows the present state, receives m
\* and reads inp
TickAfter(m, inp, late_main, late_3_phase) ==
    Iteration(Controller(late_main, late_3_phase), m, inp[1], inp[2], inp[3])

\* Two outcomes of a tick agree on all that C19 lists
SameOutcome(a, b) ==
    /\ a.panicked = b.panicked
    /\ a.state = b.state
    /\ a.max_power = b.max_power
    /\ a.max_current = b.max_current
    /\ a.three_phase = b.three_phase
    /\ a.current_adjustment = b.current_adjustment
    /\ a.control_pilot = b.control_pilot
    /\ a.relay_main.state = b.relay_main.state
    /\ a.relay_3_phase.state = b.relay_3_phase.state
    /\ RelayLevel(a.relay_main) = RelayLevel(b.relay_main)
    /\ RelayLevel(a.relay_3_phase) = RelayLevel(b.relay_3_phase)
    /\ a.next_current_adjustment = b.next_current_adjustment

\* C19 (as claimed): after a tick that consumed SetMaxPower(w), a tick that
\* consumes SetMaxPower(w) again leaves the controller (state, max_power,
\* max_current, three_phase, current_adjustment, CP signal, relay levels and
\* the next_current_adjustment countdown) as a tick without a command does,
\* whatever the two read.
C19_DuplicateSafe ==
    (msg.type = "SetMaxPower" /\ ~panicked) =>
        \A inp \in AnyInputs,
           late_main \in LateChoices(relay_main),
           late_3_phase \in LateChoices(relay_3_phase) :
            SameOutcome(TickAfter(msg, inp, late_main, late_3_phase),
                        TickAfter(NoMsg, inp, late_main, late_3_phase))

\* C20 (as claimed): a new meter fed batches of a constant sample value v is in
\* Idle with vref = v after every batch once at least 5000 samples have been
\* received, however they are split into batches, and the published cell is 0
\* throughout.
C20_Silence ==
    /\ cm_stats = 0
    /\ cm_fed.n >= CalibrationSamples => (cm.state = "Idle" /\ cm.vref = cm_fed.v)

----------------------------------------------------------------------------
\* C23: at the end of every tick, relay_main commanded ON implies that the
\* state is Charging, Stopping or ShuttingDown.
C23_MainRelayOnlyWhileCharging ==
    relay_main.state => state \in {"Charging", "Stopping", "ShuttingDown"}

\* C24: in every tick in which relay_main is switched ON, the CP mode read
\* in that tick is Ready.
C24_MainRelayClosedOnlyOnReady ==
    [][(~relay_main.state /\ relay_main'.state) => CpState(cp_mv') = "Ready"]_vars

\* C25: every Charge(ma) signal passed to set_control_pilot has ma within
\* [6000, 32000].
C25_ChargeInRange ==
    control_pilot.kind = "Charge" =>
        (MinChargeCurrent <= control_pilot.mamps /\ control_pilot.mamps <= MaxChargeMamps)

\* C26: at the end of every tick in which the state is Charging, the CP
\* signal last written is Charge(max_current + current_adjustment).
C26_ChargingSignalsCurrent ==
    state = "Charging" => control_pilot = Charge(max_current + current_adjustment)

\* C28: the watchdog is armed in every tick whose state is not Shutdown: once
\* watchdog.stop() was called, every tick ends in Shutdown.
C28_StoppedOnlyInShutdown ==
    watchdog = "stopped" => state = "Shutdown"

----------------------------------------------------------------------------
(* The loop of run() never blocks: try_recv returns at once, every sleep   *)
(* and every relay wait is finite, the locks are held for single           *)
(* assignments.  So a tick that can be taken is taken: weak fairness of    *)
(* Tick.                                                                   *)
FairSpec == Init /\ [][Next]_vars /\ WF_vars(Tick)

\* The last tick read the vehicle as disconnected and consumed no command
Disconnected ==
    /\ CpState(cp_mv) = "NotConnected"
    /\ pilot_negative
    /\ msg = NoMsg

\* C29: if from some tick on every tick reads CP NotConnected with the
\* negative-rail pin high and consumes no command, then from any state but
\* Shutdown (and but ShuttingDown, which ends in Shutdown) the controller
\* eventually is in NotConnected with relay_main commanded OFF.
C29_DisconnectHonoured ==
    []((state \notin {"Shutdown", "ShuttingDown"} /\ []Disconnected)
          => <>(state = "NotConnected" /\ ~relay_main.state))

----------------------------------------------------------------------------
(* The over-current response under commands: the controller's tick with    *)
(* SetMaxPower commands only, the CP peak and the pin left as they are and *)
(* the current cells changing at most MaxOverChanges times.  over_ticks    *)
(* counts the consecutive ticks that began in Charging, read CP Ready and  *)
(* a per-phase current above max_current + 4000 (and at least 1000), and   *)
(* did not end in Error with relay_main OFF.                               *)

MaxOverCommands == 3
MaxOverChanges == 1

OverReceived ==
    IF commands < MaxOverCommands
        THEN [type : {"SetMaxPower"}, watts : WattsValues] \cup {NoMsg}
        ELSE {NoMsg}

OverInputs ==
    {<<cp_mv, pilot_negative, current>>}
    \cup IF changes < MaxOverChanges
            THEN {<<cp_mv, pilot_negative, cur>> : cur \in CurrentReadings}
            ELSE {}

\* The tick began in Charging and read an over-current with CP Ready
OverCurrentHeld ==
    /\ state = "Charging"
    /\ CpState(cp_mv') = "Ready"
    /\ MampsPerPhase(current', three_phase') >= NotChargingMamps
    /\ MampsPerPhase(current', three_phase') > max_current' + OverCurrentMargin

TickOver ==
    /\ ~panicked
    /\ \E m \in OverReceived, inp \in OverInputs,
          late_main \in LateChoices(relay_main),
          late_3_phase \in LateChoices(relay_3_phase) :
        Step(m, inp, late_main, late_3_phase)
    /\ over_ticks' = IF OverCurrentHeld /\ ~(state' = "Error" /\ ~relay_main'.state)
                        THEN over_ticks + 1 ELSE 0
    /\ UNCHANGED << fnVars, relayVars, queueVars, meterVars, ringVars,
                    ledVars, waveVars >>

OverNext == TickOver

OverSpec == Init /\ [][OverNext]_vars

\* C27: while the state is Charging, the CP mode Ready and the per-phase
\* current above max_current + 4000, the controller is in Error with
\* relay_main commanded OFF after at most 101 ticks: no more than 100
\* consecutive such ticks end otherwise.
C27_OverCurrentWithin101Ticks ==
    over_ticks <= RelayChangeSettleTicks

----------------------------------------------------------------------------
(* logger.rs: calls of StringRingBuffer::append, one after the other       *)

\* One call of append with the next message, of any length up to S + 1
AppendMessage ==
    /\ ~rb_panicked
    /\ rb_appends < MaxAppends
    /\ \E len \in 0..(RingSize + 1), zero_at \in ZeroPlaces :
        LET message == RingMessage(rb_appends + 1, len, zero_at)
            r == RingAppend(rb, message)
        IN  /\ rb' = r.buffer
            /\ rb_panicked' = r.panic
            /\ rb_last' = message
            /\ rb_accepted' = IF RingRejects(message) THEN rb_accepted
                              ELSE Append(rb_accepted, message)
    /\ rb_appends' = rb_appends + 1
    /\ UNCHANGED << controllerVars, fnVars, relayVars, queueVars, meterVars,
                    overVars, ledVars, waveVars >>

RingNext == AppendMessage

RingSpec == Init /\ [][RingNext]_vars

\* s is what is left of t after dropping some of its first elements
IsSuffix(s, t) ==
    /\ Len(s) <= Len(t)
    /\ \A k \in 1..Len(s) : s[k] = t[Len(t) - Len(s) + k]

\* C21: append never panics; iter() yields, in insertion order, a contiguous
\* most-recent suffix of the accepted messages, ending with the last accepted
\* one; appending an empty message or one of S or more bytes leaves the
\* buffer as it was.
C21_RingBufferKeepsSuffix ==
    /\ [](~rb_panicked)
    /\ [](IsSuffix(RingIter(rb), rb_accepted))
    /\ [](rb_accepted # << >> =>
            /\ RingIter(rb) # << >>
            /\ RingIter(rb)[Len(RingIter(rb))] = rb_accepted[Len(rb_accepted)])
    /\ [][RingRejects(rb_last') => rb' = rb]_ringVars

----------------------------------------------------------------------------
(* led.rs: the caller of LedController and the controller thread, step by  *)
(* step.  led_quiet records that every set_color so far was called while   *)
(* the thread waited in recv with no command pending, as the tests of      *)
(* led.rs arrange with their sleeps.                                       *)

\* The thread waits in recv and nothing is pending
LedIdle == led_pc = "recv" /\ led_chan = << >>

\* LedController::set_color -> set_pattern
SetColor ==
    /\ ~led_dropped
    /\ Len(led_set) < MaxSetColors
    /\ LET color == Len(led_set) + 1
       IN  /\ led_pattern' = << LedFixed(color) >>
           /\ led_set' = Append(led_set, color)
    /\ led_chan' = LedNotify(led_chan)
    /\ led_quiet' = (led_quiet /\ LedIdle)
    /\ UNCHANGED << led_pc, led_i, led_wait, led_calls, led_dropped >>
    /\ UNCHANGED << controllerVars, fnVars, relayVars, queueVars, meterVars,
                    overVars, ringVars, waveVars >>

\* Drop for LedController: send Exit (the join waits for LedRecv to take it)
LedDrop ==
    /\ ~led_dropped
    /\ led_dropped' = TRUE
    /\ led_chan' = Append(led_chan, "Exit")
    /\ UNCHANGED << led_pattern, led_pc, led_i, led_wait, led_calls, led_set,
                    led_quiet >>
    /\ UNCHANGED << controllerVars, fnVars, relayVars, queueVars, meterVars,
                    overVars, ringVars, waveVars >>

\* LedControllerThread::run: lock, i %= len, set_color, read the duration
LedShow ==
    /\ led_pc = "show"
    /\ LET s == LedShown(led_pattern, led_i)
       IN  /\ led_i' = s.i
           /\ led_calls' = Append(led_calls, s.color)
           /\ led_wait' = s.wait
    /\ led_pc' = "recv"
    /\ UNCHANGED << led_pattern, led_chan, led_set, led_quiet, led_dropped >>
    /\ UNCHANGED << controllerVars, fnVars, relayVars, queueVars, meterVars,
                    overVars, ringVars, waveVars >>

\* LedControllerThread::run: recv or recv_timeout, then match command
LedRecv ==
    /\ led_pc = "recv"
    /\ \E command \in LedReceived(led_chan, led_wait) :
        LET m == LedMatch(command, led_i)
        IN  /\ led_i' = m.i
            /\ led_pc' = IF m.done THEN "done" ELSE "show"
    /\ led_chan' = IF led_chan # << >> THEN Tail(led_chan) ELSE led_chan
    /\ UNCHANGED << led_pattern, led_wait, led_calls, led_set, led_quiet,
                    led_dropped >>
    /\ UNCHANGED << controllerVars, fnVars, relayVars, queueVars, meterVars,
                    overVars, ringVars, waveVars >>

LedNext == SetColor \/ LedDrop \/ LedShow \/ LedRecv

LedSpec == Init /\ [][LedNext]_vars

\* s is what t begins with
IsPrefix(s, t) ==
    /\ Len(s) <= Len(t)
    /\ \A k \in 1..Len(s) : s[k] = t[k]

\* C22 as stated: in every interleaving the driver receives OFF first and
\* then each colour set, once each, in the order of the set_color calls.
C22_EachColourOnce ==
    IsPrefix(led_calls, << ColorOff >> \o led_set)

\* C22 amended: when every set_color is called while the thread waits in
\* recv with nothing pending, the driver receives OFF first and then each
\* colour once, in order, all of them once the thread waits again.  In any
\* interleaving there is at most one call more than there are commands
\* taken, the calls carry OFF or colours that were set, never an earlier
\* colour after a later one, and when the thread waits with nothing pending
\* the last call carries the last colour set.
C22_ColoursInOrder ==
    /\ led_quiet => IsPrefix(led_calls, << ColorOff >> \o led_set)
    /\ (led_quiet /\ LedIdle) => led_calls = << ColorOff >> \o led_set
    /\ Len(led_calls) + Len(led_chan) <= 1 + Len(led_set) + (IF led_dropped THEN 1 ELSE 0)
    /\ \A k \in 1..Len(led_calls) :
          /\ led_calls[k] \in 0..Len(led_set)
          /\ k > 1 => led_calls[k - 1] <= led_calls[k]
    /\ LedIdle => led_calls[Len(led_calls)] = Len(led_set)

\* The thread has shown OFF and then two or more colours, each set while it
\* waited with nothing pending, and waits again
C22_Witness ==
    /\ led_quiet
    /\ LedIdle
    /\ Len(led_set) >= 2
    /\ led_calls = << ColorOff >> \o led_set

----------------------------------------------------------------------------
\* The tick reaches the control logic of Charging (no SetMaxPower, the
\* countdown at 0) with CP Ready and a per-phase current of at least 1000
\* and at most max_current + 4000
C31_Case ==
    /\ body_state' = "Charging"
    /\ msg'.type # "SetMaxPower"
    /\ next_current_adjustment = 0
    /\ CpState(cp_mv') = "Ready"
    /\ MampsPerPhase(current', three_phase) >= NotChargingMamps
    /\ MampsPerPhase(current', three_phase) <= max_current + OverCurrentMargin

\* The tick set the adjustment to adj, re-advertised Charge and set the
\* countdown to 30
C31_Adjusted(adj) ==
    /\ current_adjustment' = adj
    /\ control_pilot' = Charge(AsU32(max_current + adj))
    /\ Contains(log', "cp_Charge")
    /\ next_current_adjustment' = AdjustSettleTicks

\* C31: in a Charging tick with the countdown at 0, CP Ready and
\* 1000 <= mamps_per_phase <= max_current + 4000: below 6500 the adjustment
\* becomes min(adjustment + 500, 1000); otherwise, with
\* |max_current - mamps_per_phase| > 500, it moves by 300 towards
\* max_current, clamped to [-1000, 1000]; in both cases Charge(max_current +
\* adjustment) is re-advertised and the countdown set to 30; otherwise the
\* adjustment, the CP signal and the countdown are unchanged.
C31_AdjustmentStep ==
    [][C31_Case =>
        LET per == MampsPerPhase(current', three_phase)
            diff == max_current - per
        IN  IF per < LowCurrentMamps
                THEN C31_Adjusted(Min(current_adjustment + LowCurrentStep,
                                      AdjustmentLimit))
            ELSE IF Abs(diff) > DiffThreshold
                THEN C31_Adjusted(
                        Max(-AdjustmentLimit,
                            Min(AdjustmentLimit,
                                current_adjustment + DiffStep * Signum(diff))))
            ELSE /\ current_adjustment' = current_adjustment
                 /\ control_pilot' = control_pilot
                 /\ ~Contains(log', "cp_Charge")
                 /\ next_current_adjustment' = 0]_vars

\* A tick nudged the adjustment down by 300, re-advertised and set the countdown
C31_Witness ==
    /\ body_state = "Charging"
    /\ msg = NoMsg
    /\ next_current_adjustment = AdjustSettleTicks
    /\ Contains(log, "cp_Charge")
    /\ current_adjustment = -DiffStep

\* The tick began in Charging with the countdown running and read the pin high
C32_Case ==
    /\ state = "Charging"
    /\ next_current_adjustment > 0
    /\ pilot_negative'

\* The tick lowered the countdown by 1, published the power and did nothing else
C32_OnlyCountdown ==
    /\ next_current_adjustment' = next_current_adjustment - 1
    /\ status' = [status EXCEPT !.power = (TotalMamps(current') * GridVolts) \div 1000]
    /\ log' = <<"watchdog_reset">>
    /\ relay_main'.state = relay_main.state
    /\ relay_3_phase'.state = relay_3_phase.state
    /\ UNCHANGED << state, current_adjustment, control_pilot, max_power,
                    max_current, three_phase, stop_timeout, prev_state,
                    watchdog, panicked >>

\* C32 as stated: in a tick that begins in Charging with next_adjust > 0,
\* reads the pin high and consumes no SetMaxPower, the countdown decreases by
\* 1, the power is published and the state, the adjustment, the CP signal and
\* the relays are unchanged.
C32_CountdownTickFrame ==
    [][(C32_Case /\ msg'.type # "SetMaxPower") => C32_OnlyCountdown]_vars

\* C32 amended: the same for a tick that consumes no command at all,
\* whatever CP mode and currents it reads.
C32_CountdownTickFrameNoCommand ==
    [][(C32_Case /\ msg' = NoMsg) => C32_OnlyCountdown]_vars

\* Such a tick read a CP mode other than Ready and stayed in Charging
C32_Witness ==
    /\ start_state = "Charging"
    /\ state = "Charging"
    /\ msg = NoMsg
    /\ pilot_negative
    /\ next_current_adjustment >= 2
    /\ next_current_adjustment < AdjustSettleTicks
    /\ CpState(cp_mv) # "Ready"

\* The calls on the relays that a tick's log can hold
RelayCalls ==
    {"relay_main_on", "relay_main_off_wait", "relay_3_phase_on",
     "relay_3_phase_off", "relay_3_phase_on_wait", "relay_3_phase_off_wait"}

\* C33: a tick that begins in NotConnected or Connected, reads the pin high
\* and consumes no Shutdown ends in the state that is the image of the CP
\* mode it read, and switches no relay.
C33_TracksCpMode ==
    [][(/\ state \in {"NotConnected", "Connected"}
        /\ pilot_negative'
        /\ msg'.type # "Shutdown")
       => /\ state' = CpState(cp_mv')
          /\ \A k \in DOMAIN log' : log'[k] \notin RelayCalls
          /\ relay_main'.state = relay_main.state
          /\ relay_3_phase'.state = relay_3_phase.state]_vars

\* A tick that began in Connected and consumed a SetMaxPower followed the CP
\* mode to Ready
C33_Witness ==
    /\ start_state = "Connected"
    /\ state = "Ready"
    /\ pilot_negative
    /\ msg.type = "SetMaxPower"
    /\ CpState(cp_mv) = "Ready"

\* C34: at the end of every tick status.state is the controller state and
\* status.max_power is max_power; status.state changes only in ticks in which
\* the controller state changed.
C34_StatusFollowsState ==
    /\ [](status.state = state /\ status.max_power = max_power)
    /\ [][status'.state # status.state => state' # state]_vars

\* A tick consumed a SetMaxPower and changed the state: both are published
C34_Witness ==
    /\ msg.type = "SetMaxPower"
    /\ max_power = MinPowerWatts
    /\ status.max_power = MinPowerWatts
    /\ start_state = "Ready"
    /\ state = "Charging"
    /\ status.state = "Charging"

\* C35: at the end of every tick in which the state is NotConnected,
\* Connected, Ready, Error or Shutdown, the published status.power is 0.
C35_NoPowerOutsideCharging ==
    state \in {"NotConnected", "Connected", "Ready", "Error", "Shutdown"}
        => status.power = 0

\* C36: every OFF -> ON transition sets the duty to the maximum; the duty is
\* reduced to the holding level only by the helper of the most recent
\* OFF -> ON transition, after its sleep of 90 ms, and only while the relay is
\* commanded ON; set_level(true) while ON leaves the duty as it is and spawns
\* no helper.
C36_HoldingAfterPullIn ==
    [][/\ (rp_call.pc = "swapped" /\ rp_call'.pc # "swapped"
              /\ rp_call.level /\ ~rp_call.old_level)
          => (rp_duty' = RelayMaxDuty /\ rp_call'.pc = "spawn")
       /\ (rp_call.pc = "swapped" /\ rp_call'.pc # "swapped"
              /\ rp_call.level /\ rp_call.old_level)
          => (rp_duty' = rp_duty /\ rp_call'.pc = "idle"
                /\ rp_helpers' = rp_helpers)
       /\ rp_helpers'.loaded < rp_helpers.loaded
          => (rp_duty' = HoldingDuty /\ rp_state /\ rp_old'.loaded = rp_old.loaded)
      ]_vars

----------------------------------------------------------------------------
(* WaveSpec: one CurrentMeter fed batches that make up silence, waves of   *)
(* 179 to 221 samples between rising edges, and steps out of the deadzone. *)

\* Sample values: below, inside and above the deadzone of a meter calibrated
\* on silence at VREF_MV
WaveLevels == [low |-> VREF_MV - 200, mid |-> VREF_MV, high |-> VREF_MV + 200]

\* n samples of value v
Run(v, n) == [i \in 1..n |-> v]

\* The lengths of the runs fed: parts of a half wave, which add up to 178,
\* 179, 219 and 220 samples before a rising edge
RunLengths == {1, 20, 24, 25}

\* A batch of silence
Silence == Run(WaveLevels.mid, 25)

\* Parts of a square wave, and an empty batch
WaveBatches ==
    { << >> }
    \cup { Run(v, n) : v \in {WaveLevels.low, WaveLevels.high}, n \in RunLengths }

\* Steps out of the deadzone and back, and one sample of silence
StepBatches ==
    { << WaveLevels.mid >>,
      << WaveLevels.low, WaveLevels.mid >>,
      << WaveLevels.mid, WaveLevels.high >>,
      << WaveLevels.high, WaveLevels.mid, WaveLevels.mid >> }

\* What the line carries: silence while the meter calibrates; silence, the
\* steps that end it, or a square wave while it is Idle; a square wave while
\* it follows one
LineBatches(m) ==
    CASE m.state = "Calibration" -> {Silence}
      [] m.state = "Idle" -> {Silence} \cup StepBatches \cup WaveBatches
      [] OTHER -> WaveBatches

\* One call of receive
FeedWave ==
    /\ \E data \in LineBatches(cm) :
          /\ \E r \in {receive(cm, cm_stats, data)} :
                /\ cm' = MeterOf(r)
                /\ cm_stats' = r.stats
          /\ cm_last' = [batch |-> data, state |-> cm.state,
                         count |-> cm.count, stats |-> cm_stats]
    /\ UNCHANGED << controllerVars, fnVars, relayVars, queueVars, cm_fed,
                    overVars, ringVars, ledVars >>

WaveNext == FeedWave

WaveSpec == Init /\ [][WaveNext]_vars


\* Some sample of the batch is below / above the level
SomeBelow(data, level) == \E i \in 1..Len(data) : data[i] < level
SomeAbove(data, level) == \E i \in 1..Len(data) : data[i] > level

\* C37: a batch received in Idle whose minimum is below vref - 70 leaves the
\* meter in WaitingPosEdge(false); otherwise one whose maximum is above
\* vref + 70 leaves it in WaitingPosEdge(true); otherwise (every sample in the
\* deadzone, or no sample) the meter stays Idle.
C37_IdleLeavesOnMinMax ==
    cm_last.state = "Idle" =>
        IF SomeBelow(cm_last.batch, cm.vref - DEADZONE_MV)
            THEN cm.state = "WaitingPosEdge" /\ ~cm.prev_over
        ELSE IF SomeAbove(cm_last.batch, cm.vref + DEADZONE_MV)
            THEN cm.state = "WaitingPosEdge" /\ cm.prev_over
        ELSE cm.state = "Idle"


\* The first sample of the batch is a rising edge for the meter m (every
\* batch of LineBatches(m) outside Idle is a run of one value, which can
\* hold no other rising edge)
RisingFirst(m, data) ==
    Len(data) > 0 /\ ~m.prev_over /\ data[1] > m.vref + DEADZONE_MV

\* The batch makes the meter m count more than 220 samples since its last
\* reset with no rising edge among the first 220
WaveTooLong(m, data) ==
    IF RisingFirst(m, data)
        THEN m.count + 1 > WAVELENGTH + WAVELENGTH_ERROR
        ELSE m.count + Len(data) > WAVELENGTH + WAVELENGTH_ERROR

\* The batch closes a wave of fewer than 180 samples
WaveTooShort(m, data) ==
    /\ m.state = "Active"
    /\ RisingFirst(m, data)
    /\ m.count + 1 < WAVELENGTH - WAVELENGTH_ERROR

\* C38: in WaitingPosEdge or Active, a batch that brings the count above 220
\* with no rising edge before, or in Active a rising edge that closes a wave of
\* fewer than 180 samples, makes the meter store 0, clear count and
\* square_sum, go to Calibration and drop the rest of the batch, and no other
\* batch sends it to Calibration; a non-zero value is stored only on a rising
\* edge in Active at a count of 180 to 220.  (The cell is given the content
\* -1, which the meter never stores, so that every store shows.)
C38_Resynchronisation ==
    cm.state \in {"WaitingPosEdge", "Active"} =>
        \A data \in LineBatches(cm) :
            LET r == receive(cm, -1, data)
            IN  /\ (WaveTooLong(cm, data) \/ WaveTooShort(cm, data))
                      <=> r.state = "Calibration"
                /\ r.state = "Calibration"
                      => (r.stats = 0 /\ r.count = 0 /\ r.square_sum = 0)
                /\ r.stats \notin {-1, 0}
                      => /\ cm.state = "Active"
                         /\ RisingFirst(cm, data)
                         /\ cm.count + 1 >= WAVELENGTH - WAVELENGTH_ERROR
                         /\ cm.count + 1 <= WAVELENGTH + WAVELENGTH_ERROR

\* A wave published a value, the next one grew too long in the middle of a
\* batch, and the meter is in Calibration with the cell and the count at 0
C38_Witness ==
    /\ cm_last.state = "Active"
    /\ cm_last.stats > 0
    /\ cm_last.count + Len(cm_last.batch) > WAVELENGTH + WAVELENGTH_ERROR + 1
    /\ cm.state = "Calibration"
    /\ cm.count = 0
    /\ cm_stats = 0


\* C39: whenever the meter is in Calibration, Idle or WaitingPosEdge, the cell
\* it publishes to holds 0.
C39_CellZeroOutsideActive ==
    cm.state \in {"Calibration", "Idle", "WaitingPosEdge"} => cm_stats = 0

\* A meter that had published a value closed a wave of fewer than 180
\* samples, and receive left it in Calibration with the cell at 0
C39_Witness ==
    /\ cm_last.state = "Active"
    /\ cm_last.stats > 0
    /\ cm_last.count + 1 < WAVELENGTH - WAVELENGTH_ERROR
    /\ RisingFirst([prev_over |-> FALSE, vref |-> cm.vref], cm_last.batch)
    /\ cm.state = "Calibration"
    /\ cm_stats = 0

----------------------------------------------------------------------------
(* SqrtSpec: sqrt applied along a sweep of its argument, from below 0 to   *)
(* the end of the meter's operating range.                                 *)

SqrtSweepEnd == 1000000

ApplySqrt ==
    /\ \E n \in SweepNext("sqrt", SqrtSweepEnd, {-3, 2500}) :
          /\ fn' = "sqrt"
          /\ arg' = n
          /\ ret' = sqrt(n)
    /\ UNCHANGED << controllerVars, relayVars, queueVars, meterVars, extraVars >>

SqrtNext == ApplySqrt

SqrtSpec == Init /\ [][SqrtNext]_vars

\* r is within 1 of the integer square root of n, floor(sqrt(n))
NearIntegerRoot(r, n) ==
    \E e \in (r - 1)..(r + 1) : e >= 0 /\ e * e <= n /\ n < (e + 1) * (e + 1)

\* C40: sqrt(n) is within 1 of floor(sqrt(n)) for every n from 2500 to
\* 1000000, and is n itself for n < 2.
C40_SqrtWithinOne ==
    fn = "sqrt" =>
        /\ arg < 2 => ret = arg
        /\ (arg >= 2500 /\ arg <= 1000000) => NearIntegerRoot(ret, arg)

\* sqrt(2500) = 51, one above the integer square root 50
C40_Witness ==
    /\ fn = "sqrt"
    /\ arg = 2500
    /\ ret = 51

====
